---- MODULE Spec2Model ----
(***************************************************************************)
(* Looping timer: the cycle clock and its redundant scheduler (useTimer),  *)
(* the edge-triggered feedback dispatcher (useTickSound) and their wiring  *)
(* in LoopingTimerPage; and the visibility and interaction gate            *)
(* (useBackgroundExecution).                                               *)
(*                                                                         *)
(* Times are whole milliseconds.  A value the code holds in seconds as a   *)
(* float (elapsedSeconds, cyclePosition, timeRemaining, currentSeconds) is *)
(* held here in thousandths of a second, which is exact for the code's     *)
(* inputs: Date.now() is a whole number of milliseconds and the cycle      *)
(* length is a whole number of seconds.                                    *)
(*                                                                         *)
(* The module holds several specifications over the same variables.  Spec  *)
(* and HookSpec observe the dispatcher at its feedback boundary, the calls *)
(* playTickSound() and speakNumber(n) it makes; what those two functions   *)
(* do to the audio element, the speech queue and the audio context is the  *)
(* subject of ChannelSpec, where the dispatcher runs with its channel.     *)
(* GateSpec is useBackgroundExecution mounted on its own, QuerySpec is     *)
(* useQueryParams with the controls that feed it.                          *)
(***************************************************************************)
EXTENDS Integers, Sequences, FiniteSets, TLC

VARIABLES
    wallClock,          \* Date.now() of the host
    docHidden,          \* document.hidden of the host
    phase,              \* "Rendered" (hooks constructed), "Running", "Stopped"
    currentTime,        \* useTimer: currentTime state
    startTimeRef,       \* useTimer: startTimeRef.current
    intervalLive,       \* the setInterval armed by useTimer is live
    rafPending,         \* an animation-frame request of useTimer is pending
    timeoutPending,     \* a setTimeout(timeoutChain) of useTimer is pending
    workerRef,          \* useTimer: workerRef.current is not null
    workerState,        \* the worker: "absent", "idle", "ticking", "terminated"
    visListener,        \* useTimer's visibilitychange listener is registered
    isVisibleRef,       \* useTimer: isVisibleRef.current
    loopLength,         \* page configuration: loopLengthInSeconds
    tickInterval,       \* page configuration: tickInterval
    isMuted,            \* page configuration: isMuted
    useSpeech,          \* page configuration: useSpeech
    snapshot,           \* what useTimer returned to the last render
    currentSeconds,     \* useTickSound: the currentSeconds argument, <<>> = undefined
    previousSecondsRef, \* useTickSound: previousSecondsRef.current, <<>> = null
    lastOp,             \* the handler that ran in the latest step
    refreshed,          \* the latest step called updateCurrentTime
    effectRan,          \* the latest step ran the tick effect of useTickSound
    lastPrev,           \* previousSeconds read by the latest run of the tick effect
    calls,              \* feedback calls made by the latest step, in order
    host,               \* capabilities of the host: speech, media, audioContext
    audioRef,           \* useTickSound: audioRef.current is not null
    audioState,         \* the Audio element: "none", "idle", "playing", "paused"
    pendingPlays,       \* play() promises of the element not yet settled
    resumeWaiters,      \* playTickSound invocations awaiting audioContext.resume()
    resumeRequested,    \* a resume() promise of the audio context is unsettled
    speechQueue,        \* utterances queued in speechSynthesis, oldest first
    tickListeners,      \* event kinds useTickSound still listens to
    userInteractedRef,  \* useTickSound: userInteractedRef.current
    audioContextRef,    \* useTickSound: audioContextRef.current: "null" or its state
    handshake,          \* handleUserInteraction: "idle", "media", "resume", "resumeAgain", "done"
    channelOps,         \* channel operations of the latest step, in order
    uncaught,           \* errors that left their handler in the latest step
    playbackErrors,     \* errors caught and logged by the channel so far
    gatePhase,          \* useBackgroundExecution: "Absent", "Rendered", "Mounted", "Unmounted"
    gateState,          \* useBackgroundExecution: the state it returns
    userInteractionRef, \* useBackgroundExecution: userInteractionRef.current
    gateAudioContextRef, \* useBackgroundExecution: audioContextRef.current: "null" or its state
    gateListeners,      \* <<event kind, handler>> pairs the gate has registered
    gatePending,        \* who awaits an unsettled resume() of the gate's context
    handshakeRuns,      \* executions of the body of handleUserInteraction
    contextsCreated,    \* audio contexts the gate has constructed
    permissionRequests, \* invocations of requestBackgroundPermissions
    autoRequests,       \* those of them made by requestOnInteraction
    permissionResult,   \* the requestBackgroundPermissions call of the latest step, <<>> = none
    resumeResult,       \* what the resumeAudioContext call ending in the latest step returned
    handshakeOutcome,   \* how the body of handleUserInteraction ended, "none" before it ran
    queryPhase,         \* useQueryParams: "Absent", "Rendered", "Mounted"
    search,             \* window.location.search: per key its text, <<>> = key absent
    values,             \* useQueryParams: values state
    isInitialized,      \* useQueryParams: isInitialized state
    lastInput,          \* per key the text the latest step read from a control or the URL
    callbacks,          \* change callbacks TimerControls invoked in the latest step
    replaceStates,      \* queries passed to history.replaceState in the latest step, in order
    observedSeconds,    \* history: rounded seconds the tick effect observed in the current cycle
    announcedSeconds    \* history: rounded seconds it announced in the current cycle

vars == <<wallClock, docHidden, phase, currentTime, startTimeRef, intervalLive,
          rafPending, timeoutPending, workerRef, workerState, visListener,
          isVisibleRef, loopLength, tickInterval, isMuted, useSpeech, snapshot,
          currentSeconds, previousSecondsRef, lastOp, refreshed, effectRan,
          lastPrev, calls, host, audioRef, audioState, pendingPlays,
          resumeWaiters, resumeRequested, speechQueue, tickListeners,
          userInteractedRef, audioContextRef, handshake, channelOps, uncaught,
          playbackErrors, gatePhase, gateState, userInteractionRef,
          gateAudioContextRef, gateListeners, gatePending, handshakeRuns,
          contextsCreated, permissionRequests, autoRequests, permissionResult,
          resumeResult, handshakeOutcome, queryPhase, search, values,
          isInitialized, lastInput, callbacks, replaceStates,
          observedSeconds, announcedSeconds>>

channelVars == <<host, audioRef, audioState, pendingPlays, resumeWaiters,
                 resumeRequested, speechQueue, tickListeners, userInteractedRef,
                 audioContextRef, handshake, channelOps, uncaught,
                 playbackErrors>>

gateVars == <<gatePhase, gateState, userInteractionRef, gateAudioContextRef,
              gateListeners, gatePending, handshakeRuns, contextsCreated,
              permissionRequests, autoRequests, permissionResult, resumeResult,
              handshakeOutcome>>

queryVars == <<queryPhase, search, values, isInitialized, lastInput,
               callbacks, replaceStates>>

cycleVars == <<observedSeconds, announcedSeconds>>

hostVars == <<wallClock, docHidden>>
sourceVars == <<intervalLive, rafPending, timeoutPending, workerRef,
                workerState, visListener>>
configVars == <<loopLength, tickInterval, isMuted, useSpeech>>
timerVars == <<currentTime, snapshot>>
tickVars == <<currentSeconds, previousSecondsRef>>

(***************************************************************************)
(* Bounds and input sets                                                   *)
(***************************************************************************)
MaxWallSeconds == 4       \* the wall clock runs for this many seconds
MaxLoopLength == 3        \* cycle lengths 1..MaxLoopLength
MaxTickInterval == 2      \* strides 1..MaxTickInterval
MaxPosition == 30         \* hook-level positions 0..MaxPosition seconds

MsPerSecond == 1000

ClockSteps == {500}                         \* wall-clock advance per step, ms
MountSkews == {0, 1}                        \* ms between the two Date.now() of the first render
LoopLengths == 1..MaxLoopLength
TickIntervals == 1..MaxTickInterval
ControlInputs == 0..MaxLoopLength           \* parsed loop length input, 0 is invalid
WorkerOutcomes == {"ok", "createThrows", "startThrows"}

Null == <<>>
Some(x) == <<x>>
Val(o) == o[1]

(***************************************************************************)
(* Cycle clock                                                             *)
(***************************************************************************)
\* JavaScript's % : the result takes the sign of the dividend
JsMod(a, b) == IF a >= 0 THEN a % b ELSE 0 - ((0 - a) % b)

\* Math.ceil of a value held in thousandths
Ceil(ms) == IF ms >= 0 THEN (ms + MsPerSecond - 1) \div MsPerSecond
                       ELSE 0 - ((0 - ms) \div MsPerSecond)

\* variant of CyclePosition that reaches the cycle length at the end of a cycle
CyclePositionReachingEnd(elapsed, L) ==
    IF elapsed > 0 /\ elapsed % (L * MsPerSecond) = 0
    THEN L * MsPerSecond
    ELSE JsMod(elapsed, L * MsPerSecond)

CyclePosition(elapsed, L) == JsMod(elapsed, L * MsPerSecond)

TimeRemaining(position, L) == L * MsPerSecond - position

\* progress is the fraction num/den
Progress(position, L) == [num |-> position, den |-> L * MsPerSecond]

ComputeSnapshot(now, start, L) ==
    LET elapsed == now - start
        position == CyclePosition(elapsed, L)
    IN [elapsedSeconds |-> elapsed,
        cyclePosition |-> position,
        progress |-> Progress(position, L),
        timeRemaining |-> TimeRemaining(position, L)]

(***************************************************************************)
(* Feedback dispatcher: the tick effect of useTickSound                    *)
(***************************************************************************)
Cue == [channel |-> "cue"]
Speech(n) == [channel |-> "speech", number |-> n]

\* variants of IsCandidate: one fires on every observation once a previous
\* value exists, one drops the null test
IsCandidateEveryRefresh(previousSeconds, roundedSeconds) ==
    previousSeconds # Null

IsCandidateNoNullCheck(previousSeconds, roundedSeconds) ==
    Some(roundedSeconds) # previousSeconds

\* previousSeconds !== null && roundedSeconds !== previousSeconds
IsCandidate(previousSeconds, roundedSeconds) ==
    previousSeconds # Null /\ Some(roundedSeconds) # previousSeconds

\* variants of ShouldPlay: one ignores the stride, one lets zero through
ShouldPlayIgnoresStride(roundedSeconds, stride) ==
    stride = 1 \/ roundedSeconds > 0

ShouldPlayZeroIncluded(roundedSeconds, stride) ==
    stride = 1 \/ roundedSeconds % stride = 0

\* tickInterval === 1 || (roundedSeconds > 0 && roundedSeconds % tickInterval === 0)
ShouldPlay(roundedSeconds, stride) ==
    stride = 1 \/ (roundedSeconds > 0 /\ roundedSeconds % stride = 0)

\* variant of Route that plays the cue as well as speaking
RouteCueAlways(roundedSeconds, speech) ==
    IF speech THEN <<Speech(roundedSeconds), Cue>> ELSE <<Cue>>

\* useSpeech ? speakNumber(roundedSeconds) : playTickSound()
Route(roundedSeconds, speech) ==
    IF speech THEN <<Speech(roundedSeconds)>> ELSE <<Cue>>

\* variant of FeedbackCalls that does not look at the mute flag
FeedbackCallsIgnoringMute(previousSeconds, roundedSeconds, muted, speech, stride) ==
    IF IsCandidate(previousSeconds, roundedSeconds)
       /\ ShouldPlay(roundedSeconds, stride)
    THEN Route(roundedSeconds, speech)
    ELSE <<>>

\* variant of FeedbackCalls that also fires for a multiple of the stride
\* passed over since the previous observation
FeedbackCallsCatchingUp(previousSeconds, roundedSeconds, muted, speech, stride) ==
    IF IsCandidate(previousSeconds, roundedSeconds) /\ ~muted
       /\ \E second \in 1..MaxPosition :
              /\ second # Val(previousSeconds)
              /\ \/ Val(previousSeconds) <= second /\ second <= roundedSeconds
                 \/ roundedSeconds <= second /\ second <= Val(previousSeconds)
              /\ ShouldPlay(second, stride)
    THEN Route(roundedSeconds, speech)
    ELSE <<>>

\* the calls one run of the effect makes
FeedbackCalls(previousSeconds, roundedSeconds, muted, speech, stride) ==
    IF IsCandidate(previousSeconds, roundedSeconds) /\ ~muted
       /\ ShouldPlay(roundedSeconds, stride)
    THEN Route(roundedSeconds, speech)
    ELSE <<>>

\* variant of NextPrevious that keeps the first second it recorded
NextPreviousKeepingFirst(previousSeconds, roundedSeconds) ==
    IF previousSeconds = Null THEN Some(roundedSeconds) ELSE previousSeconds

\* what the effect leaves in previousSecondsRef.current
NextPrevious(previousSeconds, roundedSeconds) == Some(roundedSeconds)

\* variant of RunTickEffect that records the rounded second only when it fires
RunTickEffectRecordingOnFire(cs, muted, speech, stride) ==
    /\ effectRan' = TRUE
    /\ IF cs = Null
       THEN /\ calls' = <<>>
            /\ UNCHANGED <<previousSecondsRef, lastPrev>>
       ELSE LET roundedSeconds == Ceil(Val(cs))
                made == FeedbackCalls(previousSecondsRef, roundedSeconds,
                                      muted, speech, stride)
            IN /\ lastPrev' = previousSecondsRef
               /\ calls' = made
               /\ previousSecondsRef' =
                      IF made # <<>> \/ previousSecondsRef = Null
                      THEN Some(roundedSeconds)
                      ELSE previousSecondsRef

\* one run of the effect with the arguments of the render that scheduled it
RunTickEffect(cs, muted, speech, stride) ==
    /\ effectRan' = TRUE
    /\ IF cs = Null
       THEN /\ calls' = <<>>
            /\ UNCHANGED <<previousSecondsRef, lastPrev>>
       ELSE LET roundedSeconds == Ceil(Val(cs))
            IN /\ lastPrev' = previousSecondsRef
               /\ calls' = FeedbackCalls(previousSecondsRef, roundedSeconds,
                                         muted, speech, stride)
               /\ previousSecondsRef' =
                      NextPrevious(previousSecondsRef, roundedSeconds)

\* a render whose effect dependencies are unchanged schedules no effect
SkipTickEffect ==
    /\ effectRan' = FALSE
    /\ calls' = <<>>
    /\ UNCHANGED <<previousSecondsRef, lastPrev>>

\* [currentSeconds, isMuted, useSpeech, tickInterval] of the effect
TickDeps(cs, muted, speech, stride) == <<cs, muted, speech, stride>>

(***************************************************************************)
(* The page: a render of LoopingTimerPage followed by its effects          *)
(***************************************************************************)
\* variant of Commit that restarts the elapsed time when the cycle length changes
CommitRestartingOnLengthChange(now, L, muted, speech, stride) ==
    LET start == IF L # loopLength THEN now ELSE startTimeRef
        snap == ComputeSnapshot(now, start, L)
        cs == Some(snap.cyclePosition)
    IN /\ currentTime' = now
       /\ snapshot' = snap
       /\ loopLength' = L
       /\ isMuted' = muted
       /\ useSpeech' = speech
       /\ tickInterval' = stride
       /\ currentSeconds' = cs
       /\ IF TickDeps(cs, muted, speech, stride)
               # TickDeps(currentSeconds, isMuted, useSpeech, tickInterval)
          THEN RunTickEffect(cs, muted, speech, stride)
          ELSE SkipTickEffect

\* variant of Commit whose effect is not run while the document is hidden
CommitWithoutEffectWhenHidden(now, L, muted, speech, stride) ==
    LET snap == ComputeSnapshot(now, startTimeRef, L)
        cs == Some(snap.cyclePosition)
    IN /\ currentTime' = now
       /\ snapshot' = snap
       /\ loopLength' = L
       /\ isMuted' = muted
       /\ useSpeech' = speech
       /\ tickInterval' = stride
       /\ currentSeconds' = cs
       /\ IF ~docHidden
             /\ TickDeps(cs, muted, speech, stride)
                    # TickDeps(currentSeconds, isMuted, useSpeech, tickInterval)
          THEN RunTickEffect(cs, muted, speech, stride)
          ELSE SkipTickEffect

Commit(now, L, muted, speech, stride) ==
    LET snap == ComputeSnapshot(now, startTimeRef, L)
        cs == Some(snap.cyclePosition)
    IN /\ currentTime' = now
       /\ snapshot' = snap
       /\ loopLength' = L
       /\ isMuted' = muted
       /\ useSpeech' = speech
       /\ tickInterval' = stride
       /\ currentSeconds' = cs
       /\ IF TickDeps(cs, muted, speech, stride)
               # TickDeps(currentSeconds, isMuted, useSpeech, tickInterval)
          THEN RunTickEffect(cs, muted, speech, stride)
          ELSE SkipTickEffect

\* variant of UpdateCurrentTime that adds the timer period to the stored time
\* instead of reading the clock
UpdateCurrentTimeCountingTicks ==
    /\ refreshed' = TRUE
    /\ IF phase = "Running"
       THEN Commit(currentTime + MsPerSecond \div 2, loopLength, isMuted,
                   useSpeech, tickInterval)
       ELSE /\ UNCHANGED <<timerVars, configVars, currentSeconds>>
            /\ SkipTickEffect

\* updateCurrentTime: setCurrentTime(Date.now()); a state update of an
\* unmounted component is dropped
UpdateCurrentTime ==
    /\ refreshed' = TRUE
    /\ IF phase = "Running"
       THEN Commit(wallClock, loopLength, isMuted, useSpeech, tickInterval)
       ELSE /\ UNCHANGED <<timerVars, configVars, currentSeconds>>
            /\ SkipTickEffect

NoRefresh ==
    /\ refreshed' = FALSE
    /\ UNCHANGED <<timerVars, configVars, currentSeconds>>
    /\ SkipTickEffect

(***************************************************************************)
(* Initial state: the first render has constructed the hooks' state        *)
(***************************************************************************)
\* the channel before useTickSound's effects have run
AllCapabilities == [speech |-> TRUE, media |-> TRUE, audioContext |-> TRUE]

\* useBackgroundExecution after its first render; supportsBackgroundExecution
\* is a constant of the host and is left out of the state
GateConstructed(hidden) ==
    /\ gatePhase = "Rendered"
    /\ gateState = [isVisible |-> ~hidden, hasUserInteracted |-> FALSE,
                    audioPermissionGranted |-> FALSE]
    /\ userInteractionRef = FALSE
    /\ gateAudioContextRef = "null"
    /\ gateListeners = {}
    /\ gatePending = {}
    /\ handshakeRuns = 0
    /\ contextsCreated = 0
    /\ permissionRequests = 0
    /\ autoRequests = 0
    /\ permissionResult = Null
    /\ resumeResult = "none"
    /\ handshakeOutcome = "none"

\* the gate left out of a specification: its variables rest at fixed values
GateAbsent ==
    /\ gatePhase = "Absent"
    /\ gateState = [isVisible |-> TRUE, hasUserInteracted |-> FALSE,
                    audioPermissionGranted |-> FALSE]
    /\ userInteractionRef = FALSE
    /\ gateAudioContextRef = "null"
    /\ gateListeners = {}
    /\ gatePending = {}
    /\ handshakeRuns = 0
    /\ contextsCreated = 0
    /\ permissionRequests = 0
    /\ autoRequests = 0
    /\ permissionResult = Null
    /\ resumeResult = "none"
    /\ handshakeOutcome = "none"

\* defaultConfig of LoopingTimerPage
DefaultLoopLength == 30
DefaultTickInterval == 5
DefaultConfig ==
    [loopLength |-> DefaultLoopLength, tickInterval |-> DefaultTickInterval,
     isMuted |-> FALSE, useSpeech |-> FALSE]

ConfigKeys == {"loopLength", "tickInterval", "isMuted", "useSpeech"}
NumberKeys == {"loopLength", "tickInterval"}

\* a query without parameters
EmptySearch == [key \in ConfigKeys |-> Null]

\* useState(defaults), useState(false)
QueryConstructed(query) ==
    /\ queryPhase = "Rendered"
    /\ search = query
    /\ values = DefaultConfig
    /\ isInitialized = FALSE
    /\ lastInput = EmptySearch
    /\ callbacks = <<>>
    /\ replaceStates = <<>>

\* useQueryParams left out of a specification: its variables rest
QueryAbsent ==
    /\ queryPhase = "Absent"
    /\ search = EmptySearch
    /\ values = DefaultConfig
    /\ isInitialized = FALSE
    /\ lastInput = EmptySearch
    /\ callbacks = <<>>
    /\ replaceStates = <<>>

\* outside a followed cycle the history is empty
CycleAbsent ==
    /\ observedSeconds = <<>>
    /\ announcedSeconds = <<>>

ChannelConstructed(h) ==
    /\ host = h
    /\ audioRef = FALSE
    /\ audioState = "none"
    /\ pendingPlays = 0
    /\ resumeWaiters = 0
    /\ resumeRequested = FALSE
    /\ speechQueue = <<>>
    /\ tickListeners = {}
    /\ userInteractedRef = FALSE
    /\ audioContextRef = "null"
    /\ handshake = "idle"
    /\ channelOps = <<>>
    /\ uncaught = {}
    /\ playbackErrors = 0

Init ==
    \E skew \in MountSkews, L \in LoopLengths, stride \in TickIntervals,
       muted \in BOOLEAN, speech \in BOOLEAN, hidden \in BOOLEAN :
        /\ currentTime = 0
        /\ startTimeRef = skew
        /\ wallClock = skew
        /\ docHidden = hidden
        /\ phase = "Rendered"
        /\ intervalLive = FALSE
        /\ rafPending = FALSE
        /\ timeoutPending = FALSE
        /\ workerRef = FALSE
        /\ workerState = "absent"
        /\ visListener = FALSE
        /\ isVisibleRef = TRUE
        /\ loopLength = L
        /\ tickInterval = stride
        /\ isMuted = muted
        /\ useSpeech = speech
        /\ snapshot = ComputeSnapshot(0, skew, L)
        /\ currentSeconds = Some(ComputeSnapshot(0, skew, L).cyclePosition)
        /\ previousSecondsRef = Null
        /\ lastOp = "render"
        /\ refreshed = FALSE
        /\ effectRan = FALSE
        /\ lastPrev = Null
        /\ calls = <<>>
        /\ ChannelConstructed(AllCapabilities)
        /\ GateAbsent
        /\ QueryAbsent
        /\ CycleAbsent

(***************************************************************************)
(* Scheduler: useTimer's effects and the callbacks they arm                *)
(***************************************************************************)
\* the worker effect's try block
WorkerRefAfter(outcome) == outcome # "createThrows"
WorkerStateAfter(outcome) ==
    CASE outcome = "ok" -> "ticking"
      [] outcome = "startThrows" -> "idle"
      [] OTHER -> "absent"

\* variant of Mount without the try/catch: a throwing worker aborts the mount
MountWithoutCatch(outcome) ==
    /\ phase = "Rendered"
    /\ phase' = IF outcome = "ok" THEN "Running" ELSE "Stopped"
    /\ lastOp' = "mount"
    /\ visListener' = (outcome = "ok")
    /\ workerRef' = WorkerRefAfter(outcome)
    /\ workerState' = WorkerStateAfter(outcome)
    /\ intervalLive' = (outcome = "ok")
    /\ rafPending' = (outcome = "ok")
    /\ timeoutPending' = (outcome = "ok")
    /\ refreshed' = FALSE
    /\ RunTickEffect(currentSeconds, isMuted, useSpeech, tickInterval)
    /\ UNCHANGED <<hostVars, startTimeRef, isVisibleRef, timerVars, configVars,
                   currentSeconds>>
    /\ UNCHANGED <<channelVars, gateVars, queryVars, cycleVars>>

\* both effects of useTimer and the tick effect of useTickSound, first run
Mount(outcome) ==
    /\ phase = "Rendered"
    /\ phase' = "Running"
    /\ lastOp' = "mount"
    /\ visListener' = TRUE
    /\ workerRef' = WorkerRefAfter(outcome)
    /\ workerState' = WorkerStateAfter(outcome)
    /\ intervalLive' = TRUE
    /\ rafPending' = TRUE
    /\ timeoutPending' = TRUE
    /\ refreshed' = FALSE
    /\ RunTickEffect(currentSeconds, isMuted, useSpeech, tickInterval)
    /\ UNCHANGED <<hostVars, startTimeRef, isVisibleRef, timerVars, configVars,
                   currentSeconds>>
    /\ UNCHANGED <<channelVars, gateVars, queryVars, cycleVars>>

\* the host's clock advances
AdvanceClock(d) ==
    /\ wallClock + d <= startTimeRef + MaxWallSeconds * MsPerSecond
    /\ wallClock' = wallClock + d
    /\ UNCHANGED <<docHidden, phase, currentTime, startTimeRef, sourceVars,
                   isVisibleRef, configVars, snapshot, tickVars, lastOp,
                   refreshed, effectRan, lastPrev, calls>>
    /\ UNCHANGED <<channelVars, gateVars, queryVars, cycleVars>>

\* variant of IntervalTick that is paused while the surface is hidden
IntervalTickPausedWhenHidden ==
    /\ intervalLive
    /\ lastOp' = "interval"
    /\ IF docHidden THEN NoRefresh ELSE UpdateCurrentTime
    /\ UNCHANGED <<hostVars, phase, startTimeRef, sourceVars, isVisibleRef>>
    /\ UNCHANGED <<channelVars, gateVars, queryVars, cycleVars>>

\* setInterval(updateCurrentTime, 50)
IntervalTick ==
    /\ intervalLive
    /\ lastOp' = "interval"
    /\ UpdateCurrentTime
    /\ UNCHANGED <<hostVars, phase, startTimeRef, sourceVars, isVisibleRef>>
    /\ UNCHANGED <<channelVars, gateVars, queryVars, cycleVars>>

\* animationLoop
AnimationFrame ==
    /\ rafPending
    /\ lastOp' = "animationFrame"
    /\ IF isVisibleRef THEN UpdateCurrentTime ELSE NoRefresh
    /\ rafPending' = TRUE
    /\ UNCHANGED <<hostVars, phase, startTimeRef, intervalLive, timeoutPending,
                   workerRef, workerState, visListener, isVisibleRef>>
    /\ UNCHANGED <<channelVars, gateVars, queryVars, cycleVars>>

\* timeoutChain
TimeoutChain ==
    /\ timeoutPending
    /\ lastOp' = "timeout"
    /\ UpdateCurrentTime
    /\ timeoutPending' = TRUE
    /\ UNCHANGED <<hostVars, phase, startTimeRef, intervalLive, rafPending,
                   workerRef, workerState, visListener, isVisibleRef>>
    /\ UNCHANGED <<channelVars, gateVars, queryVars, cycleVars>>

\* workerRef.current.onmessage
WorkerMessage ==
    /\ workerState = "ticking"
    /\ lastOp' = "worker"
    /\ UpdateCurrentTime
    /\ UNCHANGED <<hostVars, phase, startTimeRef, sourceVars, isVisibleRef>>
    /\ UNCHANGED <<channelVars, gateVars, queryVars, cycleVars>>

\* variant of VisibilityChange that only mirrors the flag and never refreshes
VisibilityChangeWithoutRefresh ==
    /\ docHidden' = ~docHidden
    /\ lastOp' = "visibility"
    /\ IF visListener
       THEN isVisibleRef' = ~docHidden'
       ELSE UNCHANGED isVisibleRef
    /\ NoRefresh
    /\ UNCHANGED <<wallClock, phase, startTimeRef, sourceVars>>
    /\ UNCHANGED <<channelVars, gateVars, queryVars, cycleVars>>

\* the host surface changes visibility; handleVisibilityChange if registered
VisibilityChange ==
    /\ docHidden' = ~docHidden
    /\ lastOp' = "visibility"
    /\ IF visListener
       THEN /\ isVisibleRef' = ~docHidden'
            /\ IF ~docHidden' THEN UpdateCurrentTime ELSE NoRefresh
       ELSE /\ UNCHANGED isVisibleRef
            /\ NoRefresh
    /\ UNCHANGED <<wallClock, phase, startTimeRef, sourceVars>>
    /\ UNCHANGED <<channelVars, gateVars, queryVars, cycleVars>>

(***************************************************************************)
(* Configuration changes made through TimerControls                        *)
(***************************************************************************)
\* handleInputChange: !isNaN(value) && value > 0
AcceptsInput(value) == value > 0

Reconfigure(op, L, muted, speech, stride) ==
    /\ phase = "Running"
    /\ <<L, muted, speech, stride>> # <<loopLength, isMuted, useSpeech, tickInterval>>
    /\ lastOp' = op
    /\ refreshed' = FALSE
    /\ Commit(currentTime, L, muted, speech, stride)
    /\ UNCHANGED <<hostVars, phase, startTimeRef, sourceVars, isVisibleRef>>
    /\ UNCHANGED <<channelVars, gateVars, queryVars, cycleVars>>

SetLoopLength(value) ==
    /\ AcceptsInput(value)
    /\ Reconfigure("setLoopLength", value, isMuted, useSpeech, tickInterval)

SetTickInterval(value) ==
    Reconfigure("setTickInterval", loopLength, isMuted, useSpeech, value)

SetMuted ==
    Reconfigure("setMuted", loopLength, ~isMuted, useSpeech, tickInterval)

SetUseSpeech ==
    /\ ~isMuted
    /\ Reconfigure("setUseSpeech", loopLength, isMuted, ~useSpeech, tickInterval)

(***************************************************************************)
(* Teardown: the cleanups of useTimer's two effects                        *)
(***************************************************************************)
Unmount ==
    /\ phase = "Running"
    /\ phase' = "Stopped"
    /\ lastOp' = "unmount"
    /\ visListener' = FALSE
    /\ workerState' = IF workerRef THEN "terminated" ELSE workerState
    /\ workerRef' = FALSE
    /\ intervalLive' = FALSE
    /\ rafPending' = FALSE
    /\ UNCHANGED timeoutPending
    /\ NoRefresh
    /\ UNCHANGED <<hostVars, startTimeRef, isVisibleRef>>
    /\ UNCHANGED <<channelVars, gateVars, queryVars, cycleVars>>

Next ==
    \/ \E outcome \in WorkerOutcomes : Mount(outcome)
    \/ \E d \in ClockSteps : AdvanceClock(d)
    \/ IntervalTick
    \/ AnimationFrame
    \/ TimeoutChain
    \/ WorkerMessage
    \/ VisibilityChange
    \/ \E value \in ControlInputs : SetLoopLength(value)
    \/ \E value \in TickIntervals : SetTickInterval(value)
    \/ SetMuted
    \/ SetUseSpeech
    \/ Unmount

\* the scheduler with the configuration it was mounted with: the host, the
\* four sources, the visibility handler and the teardown
SchedulerNext ==
    \/ \E outcome \in WorkerOutcomes : Mount(outcome)
    \/ \E d \in ClockSteps : AdvanceClock(d)
    \/ IntervalTick
    \/ AnimationFrame
    \/ TimeoutChain
    \/ WorkerMessage
    \/ VisibilityChange
    \/ Unmount

\* the page as it starts: useState(false) for isMuted and useSpeech
FairInit == Init /\ ~isMuted /\ ~useSpeech

\* the periodic interval keeps firing while it is armed, visible or hidden
FairSpec == FairInit /\ [][SchedulerNext]_vars /\ WF_vars(IntervalTick)

Spec == Init /\ [][Next]_vars

(***************************************************************************)
(* The dispatcher on its own: useTickSound rendered with arbitrary         *)
(* arguments, as renderHook drives it                                      *)
(***************************************************************************)
HookPositions == {k * (MsPerSecond \div 2) : k \in 0..(2 * MaxPosition)}
HookArguments == {Null} \cup {Some(p) : p \in HookPositions}
HookTickIntervals == {1, 2, 5}

HookInit ==
    \E cs \in HookArguments, stride \in HookTickIntervals,
       muted \in BOOLEAN, speech \in BOOLEAN :
        /\ currentTime = 0
        /\ startTimeRef = 0
        /\ wallClock = 0
        /\ docHidden = FALSE
        /\ phase = "Rendered"
        /\ intervalLive = FALSE
        /\ rafPending = FALSE
        /\ timeoutPending = FALSE
        /\ workerRef = FALSE
        /\ workerState = "absent"
        /\ visListener = FALSE
        /\ isVisibleRef = TRUE
        /\ loopLength = MaxPosition
        /\ tickInterval = stride
        /\ isMuted = muted
        /\ useSpeech = speech
        /\ snapshot = ComputeSnapshot(0, 0, MaxPosition)
        /\ currentSeconds = cs
        /\ previousSecondsRef = Null
        /\ lastOp = "render"
        /\ refreshed = FALSE
        /\ effectRan = FALSE
        /\ lastPrev = Null
        /\ calls = <<>>
        /\ ChannelConstructed(AllCapabilities)
        /\ GateAbsent
        /\ QueryAbsent
        /\ CycleAbsent

hookFrame == <<hostVars, startTimeRef, sourceVars, isVisibleRef, timerVars,
               loopLength, refreshed>>

\* the first run of the tick effect
HookMount ==
    /\ phase = "Rendered"
    /\ phase' = "Running"
    /\ lastOp' = "mount"
    /\ RunTickEffect(currentSeconds, isMuted, useSpeech, tickInterval)
    /\ UNCHANGED <<hookFrame, currentSeconds, isMuted, useSpeech, tickInterval>>
    /\ UNCHANGED <<channelVars, gateVars, queryVars, cycleVars>>

\* a render of the hook with the given arguments, then its tick effect
RenderTick(op, cs, muted, speech, stride) ==
    /\ phase = "Running"
    /\ lastOp' = op
    /\ currentSeconds' = cs
    /\ isMuted' = muted
    /\ useSpeech' = speech
    /\ tickInterval' = stride
    /\ IF TickDeps(cs, muted, speech, stride)
            # TickDeps(currentSeconds, isMuted, useSpeech, tickInterval)
       THEN RunTickEffect(cs, muted, speech, stride)
       ELSE SkipTickEffect
    /\ UNCHANGED <<hookFrame, phase>>

HookRender(op, cs, muted, speech, stride) ==
    /\ RenderTick(op, cs, muted, speech, stride)
    /\ UNCHANGED <<channelVars, gateVars, queryVars, cycleVars>>

\* rerender({currentSeconds})
HookRerender(cs) ==
    HookRender("rerender", cs, isMuted, useSpeech, tickInterval)

\* rerender with other options: {isMuted, useSpeech, tickInterval}
HookSetOptions(muted, speech, stride) ==
    HookRender("setOptions", currentSeconds, muted, speech, stride)

HookNext ==
    \/ HookMount
    \/ \E cs \in HookArguments : HookRerender(cs)
    \/ \E stride \in HookTickIntervals, muted \in BOOLEAN, speech \in BOOLEAN :
           HookSetOptions(muted, speech, stride)

HookSpec == HookInit /\ [][HookNext]_vars

(***************************************************************************)
(* The feedback channel of useTickSound: the Audio element, the speech     *)
(* queue, the audio context and the first-interaction handshake            *)
(***************************************************************************)
MaxInFlight == 2            \* unsettled play() and resume() awaits at a time
MaxPlaybackErrors == 1      \* playbackErrors counts up to this
MaxChannelPosition == 2     \* channel-level positions 0..MaxChannelPosition seconds

InteractionKinds == {"click", "touchstart", "keydown"}
ChannelPositions == {k * MsPerSecond : k \in 0..MaxChannelPosition}
Hosts ==
    {AllCapabilities,
     [speech |-> FALSE, media |-> FALSE, audioContext |-> TRUE],
     [speech |-> TRUE, media |-> TRUE, audioContext |-> FALSE]}
ThrowPoints == {"none", "cancel", "speak"}

Logged(n) ==
    IF playbackErrors + n > MaxPlaybackErrors
    THEN MaxPlaybackErrors ELSE playbackErrors + n

Repeat(ops, n) == IF n = 0 THEN <<>> ELSE IF n = 1 THEN ops ELSE ops \o ops

\* variant of PlayTickSound that waits for the playback in flight: a cue
\* requested meanwhile is dropped
PlayTickSoundSerialized ==
    /\ pendingPlays + resumeWaiters < MaxInFlight
    /\ uncaught' = {}
    /\ UNCHANGED <<speechQueue, playbackErrors, audioState>>
    /\ IF ~audioRef \/ pendingPlays > 0 \/ resumeWaiters > 0
       THEN /\ channelOps' = <<>>
            /\ UNCHANGED <<pendingPlays, resumeWaiters, resumeRequested>>
       ELSE IF audioContextRef = "suspended"
       THEN /\ channelOps' = <<"resumeContext">>
            /\ resumeWaiters' = resumeWaiters + 1
            /\ resumeRequested' = TRUE
            /\ UNCHANGED pendingPlays
       ELSE /\ channelOps' = <<"resetPosition", "play">>
            /\ pendingPlays' = pendingPlays + 1
            /\ UNCHANGED <<resumeWaiters, resumeRequested>>

\* playTickSound up to its first await: either the resume of a suspended
\* context or the promise of play()
PlayTickSound ==
    /\ pendingPlays + resumeWaiters < MaxInFlight
    /\ uncaught' = {}
    /\ UNCHANGED <<speechQueue, playbackErrors, audioState>>
    /\ IF ~audioRef
       THEN /\ channelOps' = <<>>
            /\ UNCHANGED <<pendingPlays, resumeWaiters, resumeRequested>>
       ELSE IF audioContextRef = "suspended"
       THEN /\ channelOps' = <<"resumeContext">>
            /\ resumeWaiters' = resumeWaiters + 1
            /\ resumeRequested' = TRUE
            /\ UNCHANGED pendingPlays
       ELSE /\ channelOps' = <<"resetPosition", "play">>
            /\ pendingPlays' = pendingPlays + 1
            /\ UNCHANGED <<resumeWaiters, resumeRequested>>

\* variant of SpeakNumber without the try/catch
SpeakNumberWithoutCatch(n, throwAt) ==
    /\ UNCHANGED <<pendingPlays, resumeWaiters, resumeRequested, audioState,
                   playbackErrors>>
    /\ IF ~host.speech
       THEN /\ channelOps' = <<>>
            /\ uncaught' = {}
            /\ UNCHANGED speechQueue
       ELSE /\ uncaught' = IF throwAt = "none" THEN {} ELSE {"speak"}
            /\ speechQueue' =
                   CASE throwAt = "cancel" -> speechQueue
                     [] throwAt = "speak" -> <<>>
                     [] OTHER -> <<n>>
            /\ channelOps' =
                   CASE throwAt = "cancel" -> <<>>
                     [] throwAt = "speak" -> <<"cancelSpeech">>
                     [] OTHER -> <<"cancelSpeech", "speak">>

\* variant of SpeakNumber that does not cancel the ongoing speech
SpeakNumberQueueing(n, throwAt) ==
    /\ uncaught' = {}
    /\ UNCHANGED <<pendingPlays, resumeWaiters, resumeRequested, audioState>>
    /\ IF ~host.speech
       THEN /\ channelOps' = <<>>
            /\ UNCHANGED <<speechQueue, playbackErrors>>
       ELSE /\ playbackErrors' = IF throwAt = "none" THEN playbackErrors
                                                     ELSE Logged(1)
            /\ speechQueue' =
                   IF throwAt = "none" /\ Len(speechQueue) < 2
                   THEN Append(speechQueue, n) ELSE speechQueue
            /\ channelOps' = IF throwAt = "none" THEN <<"speak">> ELSE <<>>

\* speakNumber; throwAt is the call of the host that throws, if any
SpeakNumber(n, throwAt) ==
    /\ uncaught' = {}
    /\ UNCHANGED <<pendingPlays, resumeWaiters, resumeRequested, audioState>>
    /\ IF ~host.speech
       THEN /\ channelOps' = <<>>
            /\ UNCHANGED <<speechQueue, playbackErrors>>
       ELSE /\ playbackErrors' = IF throwAt = "none" THEN playbackErrors
                                                     ELSE Logged(1)
            /\ speechQueue' =
                   CASE throwAt = "cancel" -> speechQueue
                     [] throwAt = "speak" -> <<>>
                     [] OTHER -> <<n>>
            /\ channelOps' =
                   CASE throwAt = "cancel" -> <<>>
                     [] throwAt = "speak" -> <<"cancelSpeech">>
                     [] OTHER -> <<"cancelSpeech", "speak">>

\* the channel side of the calls the tick effect made
Deliver(made) ==
    IF made = <<>>
    THEN /\ channelOps' = <<>>
         /\ uncaught' = {}
         /\ UNCHANGED <<pendingPlays, resumeWaiters, resumeRequested,
                        audioState, speechQueue, playbackErrors>>
    ELSE IF made[1].channel = "cue"
    THEN PlayTickSound
    ELSE \E throwAt \in ThrowPoints : SpeakNumber(made[1].number, throwAt)

ChannelInit ==
    \E cs \in ChannelPositions, stride \in TickIntervals,
       muted \in BOOLEAN, speech \in BOOLEAN, h \in Hosts :
        /\ currentTime = 0
        /\ startTimeRef = 0
        /\ wallClock = 0
        /\ docHidden = FALSE
        /\ phase = "Rendered"
        /\ intervalLive = FALSE
        /\ rafPending = FALSE
        /\ timeoutPending = FALSE
        /\ workerRef = FALSE
        /\ workerState = "absent"
        /\ visListener = FALSE
        /\ isVisibleRef = TRUE
        /\ loopLength = MaxChannelPosition
        /\ tickInterval = stride
        /\ isMuted = muted
        /\ useSpeech = speech
        /\ snapshot = ComputeSnapshot(0, 0, MaxChannelPosition)
        /\ currentSeconds = Some(cs)
        /\ previousSecondsRef = Null
        /\ lastOp = "render"
        /\ refreshed = FALSE
        /\ effectRan = FALSE
        /\ lastPrev = Null
        /\ calls = <<>>
        /\ ChannelConstructed(h)
        /\ GateAbsent
        /\ QueryAbsent
        /\ CycleAbsent

\* the audio effect and the tick effect of useTickSound, first run
ChannelMount ==
    /\ phase = "Rendered"
    /\ phase' = "Running"
    /\ lastOp' = "mount"
    /\ audioRef' = TRUE
    /\ audioState' = "idle"
    /\ tickListeners' = InteractionKinds \cup {"visibilitychange"}
    /\ channelOps' = <<>>
    /\ uncaught' = {}
    /\ RunTickEffect(currentSeconds, isMuted, useSpeech, tickInterval)
    /\ UNCHANGED <<hookFrame, configVars, currentSeconds, host, gateVars, queryVars, cycleVars, pendingPlays,
                   resumeWaiters, resumeRequested, speechQueue,
                   userInteractedRef, audioContextRef, handshake,
                   playbackErrors>>

\* a render of the hook, its tick effect and the channel calls it makes
ChannelRender(op, cs, muted, speech, stride) ==
    /\ RenderTick(op, cs, muted, speech, stride)
    /\ Deliver(calls')
    /\ UNCHANGED <<gateVars, queryVars, cycleVars, host, audioRef, tickListeners, userInteractedRef,
                   audioContextRef, handshake>>

ChannelRerender(cs) ==
    ChannelRender("rerender", Some(cs), isMuted, useSpeech, tickInterval)

\* the host settles the pending promises of play(): playback starts, or the
\* promises reject and each playTickSound logs the error
PlaySettles(ok) ==
    /\ pendingPlays > 0
    /\ ok => audioRef
    /\ lastOp' = "host"
    /\ pendingPlays' = 0
    /\ audioState' = IF ok THEN "playing" ELSE audioState
    /\ playbackErrors' = IF ok THEN playbackErrors ELSE Logged(pendingPlays)
    /\ channelOps' = <<>>
    /\ uncaught' = {}
    /\ SkipTickEffect
    /\ UNCHANGED <<hookFrame, phase, configVars, currentSeconds, host, gateVars, queryVars, cycleVars, audioRef,
                   resumeWaiters, resumeRequested, speechQueue, tickListeners,
                   userInteractedRef, audioContextRef, handshake>>

\* the cue reaches its end
CueEnds ==
    /\ audioState = "playing"
    /\ lastOp' = "host"
    /\ audioState' = "idle"
    /\ channelOps' = <<>>
    /\ uncaught' = {}
    /\ SkipTickEffect
    /\ UNCHANGED <<hookFrame, phase, configVars, currentSeconds, host, gateVars, queryVars, cycleVars, audioRef,
                   pendingPlays, resumeWaiters, resumeRequested, speechQueue,
                   tickListeners, userInteractedRef, audioContextRef, handshake,
                   playbackErrors>>

\* the utterance being spoken ends
SpeechEnds ==
    /\ speechQueue # <<>>
    /\ lastOp' = "host"
    /\ speechQueue' = Tail(speechQueue)
    /\ channelOps' = <<>>
    /\ uncaught' = {}
    /\ SkipTickEffect
    /\ UNCHANGED <<hookFrame, phase, configVars, currentSeconds, host, gateVars, queryVars, cycleVars, audioRef,
                   audioState, pendingPlays, resumeWaiters, resumeRequested,
                   tickListeners, userInteractedRef, audioContextRef, handshake,
                   playbackErrors>>

\* requestAudioPermissions from new AudioContextClass() on; created is the
\* state of the new context, or "throws"
CreateContext(created) ==
    IF ~host.audioContext \/ created = "throws"
    THEN /\ handshake' = "done"
         /\ UNCHANGED <<audioContextRef, resumeRequested>>
    ELSE /\ audioContextRef' = created
         /\ handshake' = IF created = "suspended" THEN "resume" ELSE "done"
         /\ resumeRequested' = (resumeRequested \/ created = "suspended")

ContextOutcomes == {"suspended", "running", "throws"}

\* a qualifying interaction event; every kind is listened to once
ChannelInteraction(kind, created) ==
    /\ kind \in tickListeners \cap InteractionKinds
    /\ lastOp' = "interaction"
    /\ tickListeners' = tickListeners \ {kind}
    /\ userInteractedRef' = TRUE
    /\ IF userInteractedRef
       THEN UNCHANGED <<audioContextRef, handshake, resumeRequested>>
       ELSE IF host.media
       THEN /\ handshake' = "media"
            /\ UNCHANGED <<audioContextRef, resumeRequested>>
       ELSE CreateContext(created)
    /\ channelOps' = <<>>
    /\ uncaught' = {}
    /\ SkipTickEffect
    /\ UNCHANGED <<hookFrame, phase, configVars, currentSeconds, host, gateVars, queryVars, cycleVars, audioRef,
                   audioState, pendingPlays, resumeWaiters, speechQueue,
                   playbackErrors>>

\* getUserMedia settles, granted or refused; the handshake goes on
MediaSettles(created) ==
    /\ handshake = "media"
    /\ lastOp' = "host"
    /\ CreateContext(created)
    /\ channelOps' = <<>>
    /\ uncaught' = {}
    /\ SkipTickEffect
    /\ UNCHANGED <<hookFrame, phase, configVars, currentSeconds, host, gateVars, queryVars, cycleVars, audioRef,
                   audioState, pendingPlays, resumeWaiters, speechQueue,
                   tickListeners, userInteractedRef, playbackErrors>>

\* the host settles the resume() promises of the context; the awaiting
\* playTickSound invocations and the handshake continue
ContextResumeSettles(ok) ==
    /\ resumeRequested
    /\ ok => audioContextRef = "suspended"
    /\ lastOp' = "host"
    /\ audioContextRef' = IF ok THEN "running" ELSE audioContextRef
    /\ resumeWaiters' = 0
    /\ pendingPlays' = IF ok /\ audioRef THEN pendingPlays + resumeWaiters
                                         ELSE pendingPlays
    /\ playbackErrors' = IF ok /\ audioRef THEN playbackErrors
                                           ELSE Logged(resumeWaiters)
    /\ channelOps' = IF ok /\ audioRef
                     THEN Repeat(<<"resetPosition", "play">>, resumeWaiters)
                     ELSE <<>>
    /\ handshake' =
           CASE handshake = "resume" /\ ~ok /\ audioContextRef = "suspended"
                    -> "resumeAgain"
             [] handshake \in {"resume", "resumeAgain"} -> "done"
             [] OTHER -> handshake
    /\ resumeRequested' = (handshake' = "resumeAgain")
    /\ uncaught' = IF handshake = "resumeAgain" /\ ~ok THEN {"resume"} ELSE {}
    /\ SkipTickEffect
    /\ UNCHANGED <<hookFrame, phase, configVars, currentSeconds, host, gateVars, queryVars, cycleVars, audioRef,
                   audioState, speechQueue, tickListeners, userInteractedRef>>

\* the host suspends the audio context of a hidden surface
ContextSuspends ==
    /\ docHidden
    /\ audioContextRef = "running"
    /\ lastOp' = "host"
    /\ audioContextRef' = "suspended"
    /\ channelOps' = <<>>
    /\ uncaught' = {}
    /\ SkipTickEffect
    /\ UNCHANGED <<hookFrame, phase, configVars, currentSeconds, host, gateVars, queryVars, cycleVars, audioRef,
                   audioState, pendingPlays, resumeWaiters, resumeRequested,
                   speechQueue, tickListeners, userInteractedRef, handshake,
                   playbackErrors>>

\* visibilitychange: the handler of useTickSound resumes a suspended context
ChannelVisibilityChange ==
    /\ docHidden' = ~docHidden
    /\ lastOp' = "visibility"
    /\ IF "visibilitychange" \in tickListeners /\ ~docHidden'
          /\ audioContextRef = "suspended"
       THEN /\ resumeRequested' = TRUE
            /\ channelOps' = <<"resumeContext">>
       ELSE /\ UNCHANGED resumeRequested
            /\ channelOps' = <<>>
    /\ uncaught' = {}
    /\ SkipTickEffect
    /\ UNCHANGED <<wallClock, startTimeRef, sourceVars, isVisibleRef, timerVars,
                   refreshed, phase, configVars, currentSeconds, host, gateVars, queryVars, cycleVars, audioRef,
                   audioState, pendingPlays, resumeWaiters, speechQueue,
                   tickListeners, userInteractedRef, audioContextRef, handshake,
                   playbackErrors>>

TeardownOps ==
    (IF audioRef THEN <<"pause", "releaseAudio">> ELSE <<>>)
    \o (IF audioContextRef # "null" THEN <<"closeContext">> ELSE <<>>)
    \o (IF host.speech THEN <<"cancelSpeech">> ELSE <<>>)
    \o <<"removeListeners">>

\* variant of ChannelUnmount from before the hook could speak: no cancel
ChannelUnmountWithoutCancel ==
    /\ phase = "Running"
    /\ phase' = "Stopped"
    /\ lastOp' = "unmount"
    /\ audioState' = IF audioRef THEN "paused" ELSE audioState
    /\ audioRef' = FALSE
    /\ audioContextRef' = "null"
    /\ tickListeners' = {}
    /\ channelOps' = TeardownOps
    /\ uncaught' = {}
    /\ SkipTickEffect
    /\ UNCHANGED <<hookFrame, configVars, currentSeconds, host, gateVars, queryVars, cycleVars, pendingPlays,
                   resumeWaiters, resumeRequested, speechQueue,
                   userInteractedRef, handshake, playbackErrors>>

\* the cleanup of the audio effect
ChannelUnmount ==
    /\ phase = "Running"
    /\ phase' = "Stopped"
    /\ lastOp' = "unmount"
    /\ audioState' = IF audioRef THEN "paused" ELSE audioState
    /\ audioRef' = FALSE
    /\ audioContextRef' = "null"
    /\ speechQueue' = IF host.speech THEN <<>> ELSE speechQueue
    /\ tickListeners' = {}
    /\ channelOps' = TeardownOps
    /\ uncaught' = {}
    /\ SkipTickEffect
    /\ UNCHANGED <<hookFrame, configVars, currentSeconds, host, gateVars, queryVars, cycleVars, pendingPlays,
                   resumeWaiters, resumeRequested, userInteractedRef, handshake,
                   playbackErrors>>

ChannelNext ==
    \/ ChannelMount
    \/ \E cs \in ChannelPositions : ChannelRerender(cs)
    \/ \E ok \in BOOLEAN : PlaySettles(ok)
    \/ CueEnds
    \/ SpeechEnds
    \/ \E kind \in InteractionKinds, created \in ContextOutcomes :
           ChannelInteraction(kind, created)
    \/ \E created \in ContextOutcomes : MediaSettles(created)
    \/ \E ok \in BOOLEAN : ContextResumeSettles(ok)
    \/ ContextSuspends
    \/ ChannelVisibilityChange
    \/ ChannelUnmount

ChannelSpec == ChannelInit /\ [][ChannelNext]_vars

(***************************************************************************)
(* The visibility and interaction gate: useBackgroundExecution             *)
(***************************************************************************)
MaxPermissionRequests == 1  \* requestBackgroundPermissions calls by the caller

GateKinds == {"click", "touchstart", "keydown", "mousedown"}
GateHandlers == {"handleUserInteraction", "requestOnInteraction"}
GateVisibilityListener == <<"visibilitychange", "handleVisibilityChange">>

\* the audio context class of the host: undefined, throwing, or giving a
\* context in the named state
GateContextOutcomes == {"undefined", "throws", "suspended", "running"}

gateFrame == <<wallClock, phase, startTimeRef, sourceVars, isVisibleRef,
               configVars, timerVars, tickVars, refreshed, effectRan, lastPrev,
               calls, channelVars, queryVars, cycleVars>>

GateInit ==
    \E hidden \in BOOLEAN :
        /\ currentTime = 0
        /\ startTimeRef = 0
        /\ wallClock = 0
        /\ docHidden = hidden
        /\ phase = "Rendered"
        /\ intervalLive = FALSE
        /\ rafPending = FALSE
        /\ timeoutPending = FALSE
        /\ workerRef = FALSE
        /\ workerState = "absent"
        /\ visListener = FALSE
        /\ isVisibleRef = TRUE
        /\ loopLength = 1
        /\ tickInterval = 1
        /\ isMuted = FALSE
        /\ useSpeech = FALSE
        /\ snapshot = ComputeSnapshot(0, 0, 1)
        /\ currentSeconds = Null
        /\ previousSecondsRef = Null
        /\ lastOp = "render"
        /\ refreshed = FALSE
        /\ effectRan = FALSE
        /\ lastPrev = Null
        /\ calls = <<>>
        /\ ChannelConstructed(AllCapabilities)
        /\ GateConstructed(docHidden)
        /\ QueryAbsent
        /\ CycleAbsent

\* what the host answers to Notification.requestPermission(): the API is
\* absent, the permission is already decided, the promise resolves or rejects
NotificationOutcomes == {"absent", "decided", "resolves", "rejects"}

\* what the host answers to navigator.wakeLock.request('screen')
WakeLockOutcomes == {"absent", "resolves", "rejects"}

\* what the host answers to resume(): the promise resolves with the context
\* running, resolves with the context still suspended, or rejects
ResumeOutcomes == {"running", "suspended", "rejects"}

\* variant of RequestBackgroundPermissions without the inner try/catch
RequestBackgroundPermissionsWakeLockFatal(notification, wakeLock) ==
    LET notificationStep == IF notification = "rejects" THEN "thrown" ELSE "done"
        wakeLockStep == IF wakeLock = "rejects" THEN "thrown" ELSE "done"
    IN  IF notificationStep = "thrown" THEN "false"
        ELSE IF wakeLockStep = "thrown" THEN "false"
        ELSE "true"

\* requestBackgroundPermissions: how its promise settles, "true", "false" or
\* "rejected"; an error thrown in the outer try makes it return false, and
\* the inner try/catch keeps a failing wake-lock request from being thrown
RequestBackgroundPermissions(notification, wakeLock) ==
    LET notificationStep == IF notification = "rejects" THEN "thrown" ELSE "done"
        wakeLockStep == IF wakeLock = "rejects" THEN "caught" ELSE "done"
    IN  IF notificationStep = "thrown" THEN "false"
        ELSE IF wakeLockStep = "thrown" THEN "false"
        ELSE "true"

\* the record of one invocation: what the host answered and how it settled
PermissionCall(notification, wakeLock) ==
    Some([notification |-> notification, wakeLock |-> wakeLock,
          settled |-> RequestBackgroundPermissions(notification, wakeLock)])

\* setState(prev => next): React drops the update of an unmounted component
SetGateState(next) ==
    gateState' = IF gatePhase = "Mounted" THEN next ELSE gateState

\* the effect of useBackgroundExecution
GateMount ==
    /\ gatePhase = "Rendered"
    /\ gatePhase' = "Mounted"
    /\ lastOp' = "mount"
    /\ gateListeners' =
           {GateVisibilityListener}
           \cup {<<kind, "handleUserInteraction">> : kind \in GateKinds}
           \cup (IF userInteractionRef THEN {}
                 ELSE {<<kind, "requestOnInteraction">> : kind \in GateKinds})
    /\ permissionResult' = Null
    /\ resumeResult' = "none"
    /\ UNCHANGED <<gateFrame, docHidden, gateState, userInteractionRef,
                   gateAudioContextRef, gatePending, handshakeRuns,
                   contextsCreated, permissionRequests, autoRequests,
                   handshakeOutcome>>

\* variant of FirstInteraction that does not consult the ref
FirstInteractionUnguarded == TRUE

\* if (!userInteractionRef.current)
FirstInteraction == ~userInteractionRef

\* variant of HandshakeBody without the try/catch: a throwing constructor
\* leaves the function before its setState
HandshakeBodyWithoutCatch(created, byChain) ==
    CASE created = "suspended" ->
             /\ gateAudioContextRef' = "suspended"
             /\ contextsCreated' = contextsCreated + 1
             /\ gatePending' = gatePending \cup
                    {IF byChain THEN "handshakeThenRequest" ELSE "handshake"}
             /\ handshakeOutcome' = "pending"
             /\ UNCHANGED gateState
      [] created = "running" ->
             /\ gateAudioContextRef' = "running"
             /\ contextsCreated' = contextsCreated + 1
             /\ handshakeOutcome' = "granted"
             /\ SetGateState([gateState EXCEPT !.hasUserInteracted = TRUE,
                                               !.audioPermissionGranted = TRUE])
             /\ UNCHANGED gatePending
      [] created = "throws" ->
             /\ handshakeOutcome' = "failed"
             /\ UNCHANGED <<gateState, gateAudioContextRef, contextsCreated,
                            gatePending>>
      [] OTHER ->
             /\ handshakeOutcome' = "unavailable"
             /\ SetGateState([gateState EXCEPT !.hasUserInteracted = TRUE,
                                               !.audioPermissionGranted = FALSE])
             /\ UNCHANGED <<gateAudioContextRef, contextsCreated, gatePending>>

\* the body of handleUserInteraction up to its await or its setState;
\* byChain: the call came from requestOnInteraction
HandshakeBody(created, byChain) ==
    CASE created = "suspended" ->
             /\ gateAudioContextRef' = "suspended"
             /\ contextsCreated' = contextsCreated + 1
             /\ gatePending' = gatePending \cup
                    {IF byChain THEN "handshakeThenRequest" ELSE "handshake"}
             /\ handshakeOutcome' = "pending"
             /\ UNCHANGED gateState
      [] created = "running" ->
             /\ gateAudioContextRef' = "running"
             /\ contextsCreated' = contextsCreated + 1
             /\ handshakeOutcome' = "granted"
             /\ SetGateState([gateState EXCEPT !.hasUserInteracted = TRUE,
                                               !.audioPermissionGranted = TRUE])
             /\ UNCHANGED gatePending
      [] OTHER ->
             /\ handshakeOutcome' = IF created = "throws" THEN "failed"
                                                          ELSE "unavailable"
             /\ SetGateState([gateState EXCEPT !.hasUserInteracted = TRUE,
                                               !.audioPermissionGranted = FALSE])
             /\ UNCHANGED <<gateAudioContextRef, contextsCreated, gatePending>>

\* an interaction event of the given kind: the listeners of that kind run in
\* the order of their registration, each once
GateInteraction(kind, created, notification, wakeLock) ==
    LET direct == <<kind, "handleUserInteraction">> \in gateListeners
        chained == <<kind, "requestOnInteraction">> \in gateListeners
        runs == FirstInteraction
        byChain == runs /\ ~direct
        requested == chained /\ ~(byChain /\ created = "suspended")
    IN  /\ direct \/ chained
        \* the host answers only what it is asked: a context is constructed
        \* by the first handshake only, permissions are requested when chained
        /\ runs \/ created = "undefined"
        /\ requested \/ (notification = "absent" /\ wakeLock = "absent")
        /\ lastOp' = "interaction"
        /\ gateListeners' =
               gateListeners \ {<<kind, h>> : h \in GateHandlers}
        /\ userInteractionRef' = TRUE
        /\ handshakeRuns' = handshakeRuns + (IF runs THEN 1 ELSE 0)
        /\ IF runs
           THEN HandshakeBody(created, byChain)
           ELSE UNCHANGED <<gateState, gateAudioContextRef, contextsCreated,
                            gatePending, handshakeOutcome>>
        /\ permissionRequests' =
               IF requested THEN permissionRequests + 1 ELSE permissionRequests
        /\ autoRequests' = IF requested THEN autoRequests + 1 ELSE autoRequests
        /\ permissionResult' =
               IF requested THEN PermissionCall(notification, wakeLock)
               ELSE Null
        /\ resumeResult' = "none"
        /\ UNCHANGED <<gateFrame, docHidden, gatePhase>>

\* the host settles the unsettled resume() promises of the gate's context
GateResumeSettles(outcome, notification, wakeLock) ==
    LET inHandshake == gatePending \cap {"handshake", "handshakeThenRequest"} # {}
        forced == "forced" \in gatePending
        requested == "handshakeThenRequest" \in gatePending
        resolved == outcome # "rejects"
    IN  /\ gatePending # {}
        /\ resolved => gateAudioContextRef = "suspended"
        /\ requested \/ (notification = "absent" /\ wakeLock = "absent")
        /\ lastOp' = "host"
        /\ gatePending' = {}
        /\ gateAudioContextRef' =
               IF outcome = "running" THEN "running" ELSE gateAudioContextRef
        /\ handshakeOutcome' =
               IF ~inHandshake THEN handshakeOutcome
               ELSE CASE outcome = "running" -> "granted"
                      [] outcome = "suspended" -> "suspended"
                      [] OTHER -> "failed"
        /\ SetGateState(
               [gateState EXCEPT
                   !.hasUserInteracted = (@ \/ inHandshake),
                   !.audioPermissionGranted =
                       IF forced /\ resolved THEN TRUE
                       ELSE IF inHandshake THEN outcome = "running" ELSE @])
        /\ resumeResult' = IF ~forced THEN "none"
                           ELSE IF resolved THEN "true" ELSE "false"
        /\ permissionRequests' =
               IF requested THEN permissionRequests + 1 ELSE permissionRequests
        /\ autoRequests' = IF requested THEN autoRequests + 1 ELSE autoRequests
        /\ permissionResult' =
               IF requested THEN PermissionCall(notification, wakeLock)
               ELSE Null
        /\ UNCHANGED <<gateFrame, docHidden, gatePhase, userInteractionRef,
                       gateListeners, handshakeRuns, contextsCreated>>

\* variant of GateVisibilityChange whose setState replaces the whole state
GateVisibilityChangeReplacingState ==
    /\ docHidden' = ~docHidden
    /\ lastOp' = "visibility"
    /\ IF GateVisibilityListener \in gateListeners
       THEN /\ SetGateState([isVisible |-> ~docHidden',
                             hasUserInteracted |-> FALSE,
                             audioPermissionGranted |-> FALSE])
            /\ gatePending' =
                   IF ~docHidden' /\ gateAudioContextRef = "suspended"
                   THEN gatePending \cup {"visibility"} ELSE gatePending
       ELSE UNCHANGED <<gateState, gatePending>>
    /\ permissionResult' = Null
    /\ resumeResult' = "none"
    /\ UNCHANGED <<gateFrame, gatePhase, userInteractionRef,
                   gateAudioContextRef, gateListeners, handshakeRuns,
                   contextsCreated, permissionRequests, autoRequests,
                   handshakeOutcome>>

\* visibilitychange, handled by handleVisibilityChange while it is registered
GateVisibilityChange ==
    /\ docHidden' = ~docHidden
    /\ lastOp' = "visibility"
    /\ IF GateVisibilityListener \in gateListeners
       THEN /\ SetGateState([gateState EXCEPT !.isVisible = ~docHidden'])
            /\ gatePending' =
                   IF ~docHidden' /\ gateAudioContextRef = "suspended"
                   THEN gatePending \cup {"visibility"} ELSE gatePending
       ELSE UNCHANGED <<gateState, gatePending>>
    /\ permissionResult' = Null
    /\ resumeResult' = "none"
    /\ UNCHANGED <<gateFrame, gatePhase, userInteractionRef,
                   gateAudioContextRef, gateListeners, handshakeRuns,
                   contextsCreated, permissionRequests, autoRequests,
                   handshakeOutcome>>

\* the host suspends the gate's context while the surface is hidden
GateContextSuspends ==
    /\ docHidden
    /\ gateAudioContextRef = "running"
    /\ lastOp' = "host"
    /\ gateAudioContextRef' = "suspended"
    /\ permissionResult' = Null
    /\ resumeResult' = "none"
    /\ UNCHANGED <<gateFrame, docHidden, gatePhase, gateState,
                   userInteractionRef, gateListeners, gatePending,
                   handshakeRuns, contextsCreated, permissionRequests,
                   autoRequests, handshakeOutcome>>

\* variant of GateResumeAudioContext that calls resume() whatever the state
GateResumeAudioContextAlwaysResuming ==
    /\ gatePhase = "Mounted"
    /\ lastOp' = "resumeAudioContext"
    /\ gatePending' = IF gateAudioContextRef # "null"
                      THEN gatePending \cup {"forced"} ELSE gatePending
    /\ resumeResult' = IF gateAudioContextRef # "null" THEN "none" ELSE "false"
    /\ permissionResult' = Null
    /\ UNCHANGED <<gateFrame, docHidden, gatePhase, gateState,
                   userInteractionRef, gateAudioContextRef, gateListeners,
                   handshakeRuns, contextsCreated, permissionRequests,
                   autoRequests, handshakeOutcome>>

\* the caller invokes resumeAudioContext; it returns at once unless the
\* context is suspended, and then after the await of resume()
GateResumeAudioContext ==
    /\ gatePhase = "Mounted"
    /\ lastOp' = "resumeAudioContext"
    /\ gatePending' = IF gateAudioContextRef = "suspended"
                      THEN gatePending \cup {"forced"} ELSE gatePending
    /\ resumeResult' =
           CASE gateAudioContextRef = "suspended" -> "none"
             [] gateAudioContextRef = "running" -> "true"
             [] OTHER -> "false"
    /\ permissionResult' = Null
    /\ UNCHANGED <<gateFrame, docHidden, gatePhase, gateState,
                   userInteractionRef, gateAudioContextRef, gateListeners,
                   handshakeRuns, contextsCreated, permissionRequests,
                   autoRequests, handshakeOutcome>>

\* the caller invokes requestBackgroundPermissions
GateRequestPermissions(notification, wakeLock) ==
    /\ gatePhase = "Mounted"
    /\ permissionRequests - autoRequests < MaxPermissionRequests
    /\ lastOp' = "requestBackgroundPermissions"
    /\ permissionRequests' = permissionRequests + 1
    /\ permissionResult' = PermissionCall(notification, wakeLock)
    /\ resumeResult' = "none"
    /\ UNCHANGED <<gateFrame, docHidden, gatePhase, gateState,
                   userInteractionRef, gateAudioContextRef, gateListeners,
                   gatePending, handshakeRuns, contextsCreated, autoRequests,
                   handshakeOutcome>>

\* the cleanup of the effect
GateUnmount ==
    /\ gatePhase = "Mounted"
    /\ gatePhase' = "Unmounted"
    /\ lastOp' = "unmount"
    /\ gateListeners' =
           gateListeners \ ({GateVisibilityListener}
               \cup {<<kind, "handleUserInteraction">> : kind \in GateKinds})
    /\ gateAudioContextRef' = "null"
    /\ permissionResult' = Null
    /\ resumeResult' = "none"
    /\ UNCHANGED <<gateFrame, docHidden, gateState, userInteractionRef,
                   gatePending, handshakeRuns, contextsCreated,
                   permissionRequests, autoRequests, handshakeOutcome>>

GateNext ==
    \/ GateMount
    \/ \E kind \in GateKinds, created \in GateContextOutcomes,
          notification \in NotificationOutcomes, wakeLock \in WakeLockOutcomes :
           GateInteraction(kind, created, notification, wakeLock)
    \/ \E outcome \in ResumeOutcomes, notification \in NotificationOutcomes,
          wakeLock \in WakeLockOutcomes :
           GateResumeSettles(outcome, notification, wakeLock)
    \/ GateVisibilityChange
    \/ GateContextSuspends
    \/ GateResumeAudioContext
    \/ \E notification \in NotificationOutcomes, wakeLock \in WakeLockOutcomes :
           GateRequestPermissions(notification, wakeLock)
    \/ GateUnmount

GateSpec == GateInit /\ [][GateNext]_vars

(***************************************************************************)
(* Configuration persisted in the URL query: useQueryParams, fed by        *)
(* TimerControls and read by the page that hands the values to useTimer    *)
(* and useTickSound.  A text is a sequence of characters.                  *)
(***************************************************************************)
MaxCycleLengthSeconds == 3600

DigitChars == <<"0", "1", "2", "3", "4", "5", "6", "7", "8", "9">>
IsDigit(c) == \E d \in 1..10 : DigitChars[d] = c
DigitOf(c) == (CHOOSE d \in 1..10 : DigitChars[d] = c) - 1

TrueText == <<"t", "r", "u", "e">>
FalseText == <<"f", "a", "l", "s", "e">>

\* texts a number field of the URL can hold
UrlNumberTexts ==
    { <<"a", "b", "c">>, <<"-", "1", "0">>, <<"0">>, <<"6", "0">>,
      <<"1", "0", "a", "b", "c">>, <<"1", ".", "5">>, <<"4", "0", "0", "0">>,
      <<>> }

\* texts an <input type="number"> delivers as event.target.value: a valid
\* floating-point number, or the empty text for anything else
ControlNumberTexts ==
    { <<"-", "1", "0">>, <<"0">>, <<"6", "0">>, <<"3", "0">>,
      <<"1", ".", "5">>, <<"4", "0", "0", "0">>, <<>> }

UrlBooleanTexts == {TrueText, FalseText, <<"1">>}

RECURSIVE TrimStart(_)
TrimStart(text) ==
    IF text # <<>> /\ Head(text) = " " THEN TrimStart(Tail(text)) ELSE text

RECURSIVE DigitRun(_)
DigitRun(text) ==
    IF text # <<>> /\ IsDigit(Head(text))
    THEN <<Head(text)>> \o DigitRun(Tail(text))
    ELSE <<>>

RECURSIVE Decimal(_)
Decimal(digits) ==
    IF digits = <<>> THEN 0
    ELSE 10 * Decimal(SubSeq(digits, 1, Len(digits) - 1))
             + DigitOf(digits[Len(digits)])

\* parseInt(text, 10): leading white space, an optional sign and the longest
\* run of digits; <<>> is NaN
ParseInt(text) ==
    LET trimmed == TrimStart(text)
        signed == trimmed # <<>> /\ Head(trimmed) \in {"-", "+"}
        negative == trimmed # <<>> /\ Head(trimmed) = "-"
        run == DigitRun(IF signed THEN Tail(trimmed) ELSE trimmed)
    IN  IF run = <<>> THEN Null
        ELSE Some(IF negative THEN 0 - Decimal(run) ELSE Decimal(run))

\* String(value) of a positive integer
RECURSIVE NumberText(_)
NumberText(n) ==
    IF n < 10 THEN <<DigitChars[n + 1]>>
    ELSE NumberText(n \div 10) \o <<DigitChars[(n % 10) + 1]>>

\* String(value) of a configuration value
ValueText(key, value) ==
    IF key \in NumberKeys THEN NumberText(value)
    ELSE IF value THEN TrueText ELSE FalseText

\* variant of AcceptsNumber that only rejects NaN
AcceptsNumberAnySign(parsed) == parsed # Null

\* !isNaN(num) && num > 0
AcceptsNumber(parsed) == parsed # Null /\ Val(parsed) > 0

\* parseQueryParams: per key the parsed value, <<>> where the key is left out
ParseQueryParams(query) ==
    [key \in ConfigKeys |->
        IF query[key] = Null THEN Null
        ELSE IF key \in NumberKeys
             THEN IF AcceptsNumber(ParseInt(Val(query[key])))
                  THEN ParseInt(Val(query[key])) ELSE Null
             ELSE Some(Val(query[key]) = TrueText)]

\* { ...defaults, ...parsedParams }
Merged(defaults, parsed) ==
    [key \in ConfigKeys |->
        IF parsed[key] = Null THEN defaults[key] ELSE Val(parsed[key])]

\* variant of UpdateURL that writes every key
UpdateURLAllKeys(newValues) ==
    [key \in ConfigKeys |-> Some(ValueText(key, newValues[key]))]

\* updateURL: the query passed to history.replaceState
UpdateURL(newValues) ==
    [key \in ConfigKeys |->
        IF newValues[key] # DefaultConfig[key]
        THEN Some(ValueText(key, newValues[key]))
        ELSE Null]

\* variant of SyncEffect without the isInitialized guard
SyncEffectUnguarded(initialized, current) == <<UpdateURL(current)>>

\* the effect on [values, updateURL, isInitialized]: the queries it writes
SyncEffect(initialized, current) ==
    IF initialized THEN <<UpdateURL(current)>> ELSE <<>>

\* the render of the page hands the values to useTimer and useTickSound
HandedToHooks(current) ==
    /\ loopLength' = current.loopLength
    /\ tickInterval' = current.tickInterval
    /\ isMuted' = current.isMuted
    /\ useSpeech' = current.useSpeech

queryFrame == <<hostVars, phase, startTimeRef, sourceVars, isVisibleRef,
                timerVars, tickVars, refreshed, effectRan, lastPrev, calls,
                channelVars, gateVars, cycleVars>>

UrlQueries ==
    { [loopLength |-> a, tickInterval |-> b, isMuted |-> c, useSpeech |-> d] :
        a \in {Null} \cup {Some(t) : t \in UrlNumberTexts},
        b \in {Null} \cup {Some(t) : t \in UrlNumberTexts},
        c \in {Null} \cup {Some(t) : t \in UrlBooleanTexts},
        d \in {Null} \cup {Some(t) : t \in UrlBooleanTexts} }

QueryInit ==
    \E query \in UrlQueries :
        /\ currentTime = 0
        /\ startTimeRef = 0
        /\ wallClock = 0
        /\ docHidden = FALSE
        /\ phase = "Rendered"
        /\ intervalLive = FALSE
        /\ rafPending = FALSE
        /\ timeoutPending = FALSE
        /\ workerRef = FALSE
        /\ workerState = "absent"
        /\ visListener = FALSE
        /\ isVisibleRef = TRUE
        /\ loopLength = DefaultConfig.loopLength
        /\ tickInterval = DefaultConfig.tickInterval
        /\ isMuted = DefaultConfig.isMuted
        /\ useSpeech = DefaultConfig.useSpeech
        /\ snapshot = ComputeSnapshot(0, 0, DefaultConfig.loopLength)
        /\ currentSeconds = Null
        /\ previousSecondsRef = Null
        /\ lastOp = "render"
        /\ refreshed = FALSE
        /\ effectRan = FALSE
        /\ lastPrev = Null
        /\ calls = <<>>
        /\ ChannelConstructed(AllCapabilities)
        /\ GateAbsent
        /\ QueryConstructed(query)
        /\ CycleAbsent

\* the render that follows setValues(next), with the effects it triggers
QueryRerender(next, written) ==
    /\ values' = next
    /\ replaceStates' = written
    /\ search' = IF written = <<>> THEN search ELSE written[Len(written)]
    /\ HandedToHooks(next)

\* the effects of the first commit, in the order of their declaration, and
\* the render they cause
QueryMount ==
    LET parsedParams == ParseQueryParams(search)
        initialValues == Merged(DefaultConfig, parsedParams)
    IN  /\ queryPhase = "Rendered"
        /\ queryPhase' = "Mounted"
        /\ lastOp' = "mount"
        /\ isInitialized' = TRUE
        /\ lastInput' = [key \in ConfigKeys |->
                            IF key \in NumberKeys THEN search[key] ELSE Null]
        /\ callbacks' = <<>>
        /\ QueryRerender(initialValues,
                         SyncEffect(isInitialized, values)
                             \o SyncEffect(TRUE, initialValues))
        /\ UNCHANGED queryFrame

\* handleInputChange of the loop length field: the callbacks it makes
HandleInputChange(text) ==
    IF AcceptsNumber(ParseInt(text))
    THEN <<[key |-> "loopLength", value |-> Val(ParseInt(text))]>>
    ELSE <<>>

\* the change handler of the tick interval field
HandleTickIntervalChange(text) ==
    IF AcceptsNumber(ParseInt(text))
    THEN <<[key |-> "tickInterval", value |-> Val(ParseInt(text))]>>
    ELSE <<>>

\* handleMuteChange, handleSpeechChange
HandleSwitchChange(key, checked) == <<[key |-> key, value |-> checked]>>

\* updateValue: setValues((prevValues) => ({ ...prevValues, [key]: value }))
UpdateValue(prevValues, call) == [prevValues EXCEPT ![call.key] = call.value]

\* a change event at a control: its handler, the callback of the page and
\* the render that follows
QueryControl(op, input, made) ==
    /\ queryPhase = "Mounted"
    /\ lastOp' = op
    /\ lastInput' = input
    /\ callbacks' = made
    /\ IF made = <<>>
       THEN /\ replaceStates' = <<>>
            /\ UNCHANGED <<values, search, configVars>>
       ELSE QueryRerender(UpdateValue(values, made[1]),
                          SyncEffect(isInitialized,
                                     UpdateValue(values, made[1])))
    /\ UNCHANGED <<queryFrame, queryPhase, isInitialized>>

LoopLengthInput(text) ==
    QueryControl("loopLengthInput",
                 [EmptySearch EXCEPT !["loopLength"] = Some(text)],
                 HandleInputChange(text))

TickIntervalInput(text) ==
    QueryControl("tickIntervalInput",
                 [EmptySearch EXCEPT !["tickInterval"] = Some(text)],
                 HandleTickIntervalChange(text))

MuteSwitch ==
    QueryControl("muteSwitch", EmptySearch,
                 HandleSwitchChange("isMuted", ~values.isMuted))

\* the speech switch is disabled while muted
SpeechSwitch ==
    /\ ~values.isMuted
    /\ QueryControl("speechSwitch", EmptySearch,
                    HandleSwitchChange("useSpeech", ~values.useSpeech))

QueryNext ==
    \/ QueryMount
    \/ \E text \in ControlNumberTexts : LoopLengthInput(text)
    \/ \E text \in ControlNumberTexts : TickIntervalInput(text)
    \/ MuteSwitch
    \/ SpeechSwitch

QuerySpec == QueryInit /\ [][QueryNext]_vars

(***************************************************************************)
(* A followed cycle: the page with a fixed configuration, refreshed by the *)
(* interval timer, with the history of the cycle the clock is in           *)
(***************************************************************************)
MaxCycleLength == 4         \* cycle lengths 1..MaxCycleLength
MaxCycleStride == 3         \* strides 2..MaxCycleStride
MaxCycleWall == 9           \* the clock of a followed cycle runs this many seconds

CycleLengths == 1..MaxCycleLength
CycleStrides == 2..MaxCycleStride
CycleSteps == {MsPerSecond \div 2, MsPerSecond}

Last(seq) == seq[Len(seq)]

\* the cycle an elapsed time lies in
CycleIndex(elapsed, L) ==
    IF elapsed < 0 THEN 0 ELSE elapsed \div (L * MsPerSecond)

\* history of the step: what the tick effect observed and announced, started
\* afresh when the refresh lies in another cycle than the one before
FollowCycle ==
    IF ~effectRan'
    THEN UNCHANGED cycleVars
    ELSE LET roundedSeconds == Ceil(Val(currentSeconds'))
             wrapped == CycleIndex(snapshot'.elapsedSeconds, loopLength')
                            # CycleIndex(snapshot.elapsedSeconds, loopLength)
             seen == IF wrapped THEN <<>> ELSE observedSeconds
             said == IF wrapped THEN <<>> ELSE announcedSeconds
         IN /\ observedSeconds' =
                   IF seen # <<>> /\ Last(seen) = roundedSeconds
                   THEN seen ELSE Append(seen, roundedSeconds)
            /\ announcedSeconds' =
                   said \o [i \in 1..Len(calls') |-> roundedSeconds]

CycleInit ==
    \E skew \in MountSkews, L \in CycleLengths, stride \in CycleStrides,
       muted \in BOOLEAN, speech \in BOOLEAN :
        /\ currentTime = 0
        /\ startTimeRef = skew
        /\ wallClock = skew
        /\ docHidden = FALSE
        /\ phase = "Rendered"
        /\ intervalLive = FALSE
        /\ rafPending = FALSE
        /\ timeoutPending = FALSE
        /\ workerRef = FALSE
        /\ workerState = "absent"
        /\ visListener = FALSE
        /\ isVisibleRef = TRUE
        /\ loopLength = L
        /\ tickInterval = stride
        /\ isMuted = muted
        /\ useSpeech = speech
        /\ snapshot = ComputeSnapshot(0, skew, L)
        /\ currentSeconds = Some(ComputeSnapshot(0, skew, L).cyclePosition)
        /\ previousSecondsRef = Null
        /\ lastOp = "render"
        /\ refreshed = FALSE
        /\ effectRan = FALSE
        /\ lastPrev = Null
        /\ calls = <<>>
        /\ ChannelConstructed(AllCapabilities)
        /\ GateAbsent
        /\ QueryAbsent
        /\ CycleAbsent

cycleFrame == <<channelVars, gateVars, queryVars>>

\* the effects of the first render, the worker constructed and started
CycleMount ==
    /\ phase = "Rendered"
    /\ phase' = "Running"
    /\ lastOp' = "mount"
    /\ visListener' = TRUE
    /\ workerRef' = WorkerRefAfter("ok")
    /\ workerState' = WorkerStateAfter("ok")
    /\ intervalLive' = TRUE
    /\ rafPending' = TRUE
    /\ timeoutPending' = TRUE
    /\ refreshed' = FALSE
    /\ RunTickEffect(currentSeconds, isMuted, useSpeech, tickInterval)
    /\ UNCHANGED <<hostVars, startTimeRef, isVisibleRef, timerVars, configVars,
                   currentSeconds>>
    /\ UNCHANGED cycleFrame
    /\ FollowCycle

\* the host's clock advances
CycleAdvanceClock(d) ==
    /\ phase = "Running"
    /\ wallClock + d <= startTimeRef + MaxCycleWall * MsPerSecond
    /\ wallClock' = wallClock + d
    /\ UNCHANGED <<docHidden, phase, currentTime, startTimeRef, sourceVars,
                   isVisibleRef, configVars, snapshot, tickVars, lastOp,
                   refreshed, effectRan, lastPrev, calls>>
    /\ UNCHANGED <<cycleFrame, cycleVars>>

\* setInterval(updateCurrentTime, 50)
CycleIntervalTick ==
    /\ intervalLive
    /\ lastOp' = "interval"
    /\ UpdateCurrentTime
    /\ UNCHANGED <<hostVars, phase, startTimeRef, sourceVars, isVisibleRef>>
    /\ UNCHANGED cycleFrame
    /\ FollowCycle

CycleNext ==
    \/ CycleMount
    \/ \E d \in CycleSteps : CycleAdvanceClock(d)
    \/ CycleIntervalTick

CycleSpec == CycleInit /\ [][CycleNext]_vars

(***************************************************************************)
(* Properties                                                              *)
(***************************************************************************)
Observed == effectRan /\ currentSeconds # Null
Crossed == Observed /\ lastPrev # Null /\ previousSecondsRef # lastPrev
Rounded == Val(previousSecondsRef)

\* C1: with stride 1 and not muted, an observation whose rounded second
\* differs from the previously observed one makes exactly one feedback call,
\* an observation in the same rounded second makes none, and a step that
\* observes nothing makes none, whichever source refreshed.
C1_OneCallPerCrossing ==
    /\ (Observed /\ tickInterval = 1 /\ ~isMuted /\ lastPrev # Null) =>
           IF previousSecondsRef # lastPrev THEN Len(calls) = 1 ELSE calls = <<>>
    /\ ~effectRan => calls = <<>>

\* a refresh from the worker observes the wrap of the cycle and fires once
C1_Witness ==
    /\ phase = "Running" /\ lastOp = "worker" /\ refreshed
    /\ tickInterval = 1 /\ ~isMuted
    /\ Crossed /\ Rounded < Val(lastPrev)
    /\ Len(calls) = 1

\* C2: the first observation (no previous value) makes no call, whatever the
\* position and the options, and records ceil(position).
C2_FirstObservationSilent ==
    (effectRan /\ lastPrev = Null) =>
        /\ calls = <<>>
        /\ currentSeconds # Null =>
               previousSecondsRef = Some(Ceil(Val(currentSeconds)))

C2_Witness ==
    /\ lastOp = "mount" /\ effectRan /\ lastPrev = Null
    /\ currentSeconds = Some(MsPerSecond + MsPerSecond \div 2)
    /\ ~isMuted /\ tickInterval = 1
    /\ previousSecondsRef = Some(2)
    /\ calls = <<>>

\* C3: an unmuted candidate tick fires iff stride = 1 or the rounded second
\* is a positive multiple of the stride; with stride 5 the crossings to 29
\* and 23 make no call and the crossings to 25 and 20 make exactly one.
C3_StrideFilter ==
    (Crossed /\ ~isMuted) =>
        /\ calls # <<>> <=>
               (tickInterval = 1 \/ (Rounded > 0 /\ Rounded % tickInterval = 0))
        /\ (tickInterval = 5 /\ Rounded \in {29, 23}) => calls = <<>>
        /\ (tickInterval = 5 /\ Rounded \in {25, 20}) => Len(calls) = 1

C3_Witness ==
    /\ Crossed /\ ~isMuted /\ tickInterval = 5
    /\ lastPrev = Some(26) /\ Rounded = 25
    /\ Len(calls) = 1

\* C4 as stated: a crossing to rounded second 0 is never announced, for any
\* stride.
C4_ZeroNeverAnnounced ==
    (Observed /\ previousSecondsRef = Some(0)) => calls = <<>>

\* C4 as amended: for a stride greater than 1, a crossing to rounded second 0
\* is never announced (with stride 1 every crossing fires, the one to 0 too).
C4_ZeroNotAnnouncedAboveStrideOne ==
    (Observed /\ previousSecondsRef = Some(0) /\ tickInterval # 1) =>
        calls = <<>>

C4_Witness ==
    /\ phase = "Running" /\ refreshed
    /\ Crossed /\ Rounded = 0 /\ ~isMuted /\ tickInterval = 2
    /\ snapshot.elapsedSeconds > 0
    /\ calls = <<>>

\* C5: while muted, no observation reaches the cue or the speech channel.
C5_MutedSilent ==
    isMuted => calls = <<>>

C5_Witness ==
    /\ isMuted /\ useSpeech /\ Crossed
    /\ tickInterval = 5 /\ Rounded = 25
    /\ calls = <<>>

\* C6: after every observation with a defined position the previous rounded
\* second equals ceil(position), fired or not; an observation in the same
\* rounded second as the one before it (after an unmute or a stride change)
\* makes no call.
C6_PreviousAlwaysRecorded ==
    /\ Observed => previousSecondsRef = Some(Ceil(Val(currentSeconds)))
    /\ (Observed /\ lastPrev = previousSecondsRef) => calls = <<>>

C6_Witness ==
    /\ lastOp = "setOptions" /\ Observed
    /\ ~isMuted /\ tickInterval = 5
    /\ lastPrev = Some(25) /\ previousSecondsRef = Some(25)
    /\ calls = <<>>

\* C7: for elapsed time t >= 0 and cycle length L, position = t mod L with
\* 0 <= position < L, progress = position / L in [0,1), remaining =
\* L - position in (0, L]; at t = k*L position and progress are 0 and the
\* remaining time is L.
C7_SnapshotArithmetic ==
    LET t == snapshot.elapsedSeconds
        len == loopLength * MsPerSecond
    IN t >= 0 =>
        /\ snapshot.cyclePosition = t % len
        /\ snapshot.cyclePosition >= 0 /\ snapshot.cyclePosition < len
        /\ snapshot.progress = [num |-> snapshot.cyclePosition, den |-> len]
        /\ snapshot.progress.num >= 0
        /\ snapshot.progress.num < snapshot.progress.den
        /\ snapshot.timeRemaining = len - snapshot.cyclePosition
        /\ snapshot.timeRemaining > 0 /\ snapshot.timeRemaining <= len
        /\ t % len = 0 =>
               /\ snapshot.cyclePosition = 0
               /\ snapshot.progress.num = 0
               /\ snapshot.timeRemaining = len

\* a refresh lands exactly on the end of the second cycle
C7_Witness ==
    /\ phase = "Running" /\ refreshed
    /\ snapshot.elapsedSeconds = 2 * loopLength * MsPerSecond
    /\ snapshot.cyclePosition = 0
    /\ snapshot.timeRemaining = loopLength * MsPerSecond

\* C8: no step changes the start instant, and a step that changes the cycle
\* length keeps the elapsed time and yields position = elapsed mod the new
\* length.
C8_StartInstantFixed ==
    [][/\ startTimeRef' = startTimeRef
       /\ loopLength' # loopLength =>
              /\ snapshot'.elapsedSeconds = snapshot.elapsedSeconds
              /\ snapshot.elapsedSeconds >= 0 =>
                     snapshot'.cyclePosition =
                         snapshot.elapsedSeconds % (loopLength' * MsPerSecond)]_vars

\* the cycle length was changed after more than one new cycle had elapsed
C8_Witness ==
    /\ lastOp = "setLoopLength"
    /\ snapshot.elapsedSeconds > loopLength * MsPerSecond
    /\ snapshot.cyclePosition > 0
    /\ snapshot.cyclePosition = snapshot.elapsedSeconds % (loopLength * MsPerSecond)

\* C9: after teardown every wake-up source is released: interval cleared,
\* animation frame cancelled, timeout chain not pending, worker terminated,
\* visibility listener removed.
C9_AllSourcesReleased ==
    phase = "Stopped" =>
        /\ ~intervalLive
        /\ ~rafPending
        /\ ~timeoutPending
        /\ ~workerRef /\ workerState \in {"absent", "terminated"}
        /\ ~visListener

\* C10: after teardown no callback executes the refresh operation.
C10_NoRefreshAfterTeardown ==
    phase = "Stopped" => ~refreshed

\* C11: whatever the worker creation does (created, constructor throws, start
\* throws), the mount ends Running, and in every Running state the periodic
\* interval, the timeout chain and the animation-frame loop are armed.
C11_RunningWithoutWorker ==
    /\ lastOp = "mount" => phase = "Running"
    /\ phase = "Running" => (intervalLive /\ timeoutPending /\ rafPending)

C11_Witness ==
    /\ lastOp = "mount" /\ phase = "Running"
    /\ ~workerRef /\ workerState = "absent"
    /\ intervalLive /\ timeoutPending /\ rafPending /\ visListener

\* C12: while the scheduler runs, a step that refreshes leaves 'now' equal to
\* the wall clock it read, never moves 'now' backwards, and changes nothing
\* of the clock or the dispatcher when 'now' already had that value.
C12_LastWriteWins ==
    [][(refreshed' /\ wallClock' = wallClock /\ phase' = "Running") =>
          /\ currentTime' = wallClock
          /\ currentTime' >= currentTime
          /\ currentTime = wallClock =>
                 /\ UNCHANGED <<timerVars, tickVars, lastPrev>>
                 /\ calls' = <<>>]_vars

\* a second source fires at the instant of the previous refresh
C12_Witness ==
    /\ phase = "Running" /\ refreshed /\ lastOp = "timeout"
    /\ currentTime = wallClock /\ currentTime > startTimeRef
    /\ ~effectRan /\ workerState = "ticking"

\* C13: the visibility handler refreshes 'now' exactly on a change to visible
\* and mirrors the host's visibility; on a change to hidden it does not
\* refresh.
C13_RefreshOnVisible ==
    (lastOp = "visibility" /\ phase = "Running") =>
        /\ refreshed <=> ~docHidden
        /\ isVisibleRef <=> ~docHidden

\* the surface becomes visible and the refresh catches up a crossed second
C13_Witness ==
    /\ lastOp = "visibility" /\ phase = "Running" /\ ~docHidden
    /\ refreshed /\ currentTime > startTimeRef
    /\ Crossed /\ tickInterval = 1 /\ ~isMuted /\ Len(calls) = 1

\* C14: whenever the scheduler is running and 'now' is behind the wall clock,
\* 'now' eventually equals the wall clock (or the scheduler is torn down),
\* visible or hidden, with or without the worker.
C14_NowCatchesUp ==
    (phase = "Running" /\ currentTime # wallClock)
        ~> (currentTime = wallClock \/ phase = "Stopped")

\* hidden, no worker: the interval still refreshes
C14_Witness ==
    /\ phase = "Running" /\ docHidden /\ ~isVisibleRef /\ workerState = "absent"
    /\ lastOp = "interval" /\ refreshed
    /\ currentTime = wallClock /\ currentTime > startTimeRef

\* C15: a step that fires makes exactly one call: speak(ceil(position)) when
\* useSpeech is set, the cue otherwise.
C15_OneChannel ==
    calls # <<>> =>
        /\ Len(calls) = 1
        /\ calls[1] = IF useSpeech THEN Speech(Rounded) ELSE Cue

C15_Witness ==
    /\ Crossed /\ useSpeech /\ ~isMuted /\ tickInterval = 5
    /\ calls = <<Speech(25)>>

\* the latest step called op on the host
Issued(op) == \E i \in DOMAIN channelOps : channelOps[i] = op

\* C16: a failing play or speak call is caught and does not escape the
\* dispatcher; the effect records the rounded second exactly as after a
\* successful call, and the next crossing that passes the mute and stride
\* filters still fires, whatever number of failures came before.
C16_FailureContained ==
    /\ uncaught \cap {"play", "speak"} = {}
    /\ Observed => previousSecondsRef = Some(Ceil(Val(currentSeconds)))
    /\ (Crossed /\ ~isMuted /\ ShouldPlay(Rounded, tickInterval))
           => calls = Route(Rounded, useSpeech)

C16_Witness ==
    /\ playbackErrors >= 1
    /\ lastOp = "rerender"
    /\ Crossed
    /\ calls = <<Cue>>
    /\ Issued("play")

\* C17: dispatch is fire-and-forget: while play() or resume() promises are
\* unsettled every further observation stays enabled, and a due cue issues
\* its own play (or its resume of a suspended context) in the step that
\* observes the crossing, without waiting for the earlier playback.
C17_FireAndForget ==
    /\ (phase = "Running" /\ pendingPlays + resumeWaiters < MaxInFlight)
           => \A cs \in ChannelPositions : ENABLED ChannelRerender(cs)
    /\ (calls # <<>> /\ calls[1].channel = "cue" /\ audioRef)
           => (Issued("play") \/ Issued("resumeContext"))
    /\ (calls # <<>> /\ calls[1].channel = "speech" /\ host.speech)
           => (Issued("speak") \/ playbackErrors >= 1)

C17_Witness ==
    /\ lastOp = "rerender"
    /\ Crossed
    /\ calls = <<Cue>>
    /\ pendingPlays = 2
    /\ Issued("play")

\* C18: on teardown the speech queue is cancelled, the cue audio is paused
\* and released and the interaction and visibility listeners are removed;
\* in no state after teardown is a cue playing, pending to start with a live
\* element, or issued.
C18_TeardownSilences ==
    /\ phase = "Stopped" =>
           /\ speechQueue = <<>>
           /\ ~audioRef
           /\ audioState = "paused"
           /\ tickListeners = {}
           /\ ~Issued("play")
           /\ ~Issued("speak")
    /\ lastOp = "unmount" =>
           /\ Issued("pause")
           /\ Issued("releaseAudio")
           /\ Issued("removeListeners")
           /\ host.speech => Issued("cancelSpeech")

C18_Witness ==
    /\ lastOp = "unmount"
    /\ phase = "Stopped"
    /\ useSpeech
    /\ previousSecondsRef # Null
    /\ playbackErrors = 0
    /\ Issued("cancelSpeech")
    /\ Issued("closeContext")
    /\ handshake = "done"

\* C19: hasUserInteracted starts false and only ever goes from false to
\* true: no interaction event, visibility change, permission request, resume
\* call or settled promise sets it back.
C19_InteractionLatch ==
    /\ ~gateState.hasUserInteracted
    /\ [][gateState.hasUserInteracted => gateState'.hasUserInteracted]_vars

C19_Witness ==
    /\ gateState.hasUserInteracted
    /\ ~gateState.isVisible
    /\ lastOp = "resumeAudioContext"
    /\ "forced" \in gatePending
    /\ permissionRequests >= 2

\* C20: during one mount, whatever interaction events of whatever kinds
\* arrive, the body of handleUserInteraction has run exactly once as soon as
\* one event has arrived, and at most one audio context has been created,
\* although every kind carries two listeners.
C20_HandshakeOnce ==
    /\ handshakeRuns <= 1
    /\ contextsCreated <= handshakeRuns
    /\ (gatePhase = "Mounted"
        /\ \E kind \in GateKinds :
               <<kind, "handleUserInteraction">> \notin gateListeners)
           => handshakeRuns = 1

C20_Witness ==
    /\ gatePhase = "Mounted"
    /\ lastOp = "interaction"
    /\ gateListeners = {GateVisibilityListener}
    /\ handshakeRuns = 1
    /\ contextsCreated = 1
    /\ permissionRequests >= 4

\* C21 (as claimed): while the gate is mounted, requestOnInteraction calls
\* requestBackgroundPermissions for the first interaction only, so at most
\* one automatic request is ever made.
C21_AutomaticRequestOnce ==
    gatePhase = "Mounted" => autoRequests <= 1

\* C22: requestBackgroundPermissions never rejects; it resolves false exactly
\* when the notification request fails and true otherwise, a failing
\* wake-lock request included.
C22_PermissionsAlwaysResolve ==
    permissionResult # Null =>
        LET call == Val(permissionResult)
        IN  /\ call.settled \in {"true", "false"}
            /\ call.settled = "false" <=> call.notification = "rejects"

C22_Witness ==
    /\ lastOp = "requestBackgroundPermissions"
    /\ permissionResult # Null
    /\ Val(permissionResult).notification = "resolves"
    /\ Val(permissionResult).wakeLock = "rejects"
    /\ Val(permissionResult).settled = "true"

\* C23: when the construction of the context throws or its resume() rejects
\* during the handshake, the step in which the handshake fails still
\* completes it: hasUserInteracted is true and audioPermissionGranted false.
C23_HandshakeFailureCaught ==
    [][(/\ gatePhase = "Mounted"
        /\ handshakeOutcome # "failed"
        /\ handshakeOutcome' = "failed")
       => (/\ gateState'.hasUserInteracted
           /\ ~gateState'.audioPermissionGranted
           /\ userInteractionRef')]_vars

C23_Witness ==
    /\ gatePhase = "Mounted"
    /\ lastOp = "interaction"
    /\ handshakeOutcome = "failed"
    /\ handshakeRuns = 1
    /\ gateAudioContextRef = "null"
    /\ gateState.hasUserInteracted
    /\ ~gateState.audioPermissionGranted

\* C24 (as claimed): resumeAudioContext returns true only if the context is
\* running when the call returns.
C24_TrueOnlyWhenRunning ==
    resumeResult = "true" => gateAudioContextRef = "running"

\* C25: with the context running, resumeAudioContext and the visibility
\* handler call no resume() and change nothing but the mirrored visibility,
\* and resumeAudioContext returns true; a second resumeAudioContext right
\* after a first leaves the result and the state as the first left them.
C25_ResumeIdempotent ==
    [][/\ (gateAudioContextRef = "running" /\ lastOp' = "resumeAudioContext")
          => (/\ resumeResult' = "true"
              /\ UNCHANGED <<gateState, gateAudioContextRef, gatePending>>)
       /\ (gateAudioContextRef = "running" /\ lastOp' = "visibility")
          => (/\ gateState' = [gateState EXCEPT !.isVisible = gateState'.isVisible]
              /\ UNCHANGED <<gateAudioContextRef, gatePending>>)
       /\ (lastOp = "resumeAudioContext" /\ lastOp' = "resumeAudioContext")
          => (/\ resumeResult' = resumeResult
              /\ UNCHANGED <<gateState, gateAudioContextRef, gatePending>>)
      ]_vars

C25_Witness ==
    /\ lastOp = "resumeAudioContext"
    /\ gateAudioContextRef = "running"
    /\ resumeResult = "true"
    /\ gatePending = {}
    /\ gateState.audioPermissionGranted
    /\ ~gateState.isVisible

\* C26 (as claimed): while the gate exists its isVisible equals the host's
\* visibility, initially and after every visibilitychange event.
C26_VisibilityMirrored ==
    gatePhase \in {"Rendered", "Mounted"} => gateState.isVisible = ~docHidden

\* a text that is a number as a whole: an optional sign, digits and
\* optionally a point followed by digits
IsNumberText(text) ==
    LET unsigned == IF text # <<>> /\ Head(text) \in {"-", "+"}
                    THEN Tail(text) ELSE text
        whole == DigitRun(unsigned)
        rest == SubSeq(unsigned, Len(whole) + 1, Len(unsigned))
    IN  /\ whole # <<>>
        /\ \/ rest = <<>>
           \/ /\ Head(rest) = "."
              /\ Tail(rest) # <<>>
              /\ DigitRun(Tail(rest)) = Tail(rest)

\* a number text that denotes zero or a negative number
IsNonPositiveText(text) ==
    /\ IsNumberText(text)
    /\ \/ Head(text) = "-"
       \/ \A i \in 1..Len(text) : text[i] \in {"0", ".", "+"}

\* the step read, for a number key, a text of the given class and left the
\* key's value alone without invoking a callback
RejectedWhere(Invalid(_)) ==
    \A key \in NumberKeys :
        (lastInput'[key] # Null /\ Invalid(Val(lastInput'[key])))
            => (values'[key] = values[key] /\ callbacks' = <<>>)

NotANumberOrNonPositive(text) == ~IsNumberText(text) \/ IsNonPositiveText(text)
NoPositiveLeadingInteger(text) ==
    ParseInt(text) = Null \/ Val(ParseInt(text)) <= 0

\* C27 (as claimed): a cycle length or stride text that is not a number or
\* is not positive is rejected at the controls and the URL query: no
\* callback, the value stays, and the hooks never receive a value <= 0.
C27_InvalidRejected ==
    [][/\ RejectedWhere(NotANumberOrNonPositive)
       /\ loopLength' > 0 /\ tickInterval' > 0]_vars

\* C27 (amended): a cycle length or stride text whose leading integer, as
\* parseInt reads it, is missing or not positive is rejected at the controls
\* and the URL query: no callback, the value stays what it was (the default
\* at mount), and the hooks never receive a cycle length or stride <= 0.
C27_NoPositiveLeadingIntegerRejected ==
    [][/\ RejectedWhere(NoPositiveLeadingInteger)
       /\ loopLength' > 0 /\ tickInterval' > 0]_vars

C27_Witness ==
    /\ queryPhase = "Mounted"
    /\ lastOp = "loopLengthInput"
    /\ lastInput["loopLength"] = Some(<<"-", "1", "0">>)
    /\ callbacks = <<>>
    /\ replaceStates = <<>>
    /\ values.loopLength = 60
    /\ loopLength = 60

\* C28 (as claimed): the cycle length handed to the clock is always an
\* integer in 1..3600.
C28_CycleLengthInRange ==
    queryPhase \in {"Rendered", "Mounted"}
        => loopLength \in 1..MaxCycleLengthSeconds

\* C29: once initialized, the query holds exactly the keys whose value
\* differs from the default, each with the text of its current value, and is
\* empty when all values are the defaults; nothing is written before the
\* values parsed from the initial URL are applied, and the first write is of
\* those values.
C29_QueryHoldsNonDefaults ==
    /\ queryPhase = "Rendered" => (~isInitialized /\ replaceStates = <<>>)
    /\ queryPhase = "Mounted" =>
        /\ isInitialized
        /\ \A key \in ConfigKeys :
               search[key] = IF values[key] = DefaultConfig[key] THEN Null
                             ELSE Some(ValueText(key, values[key]))
        /\ values = DefaultConfig => search = EmptySearch
        /\ Merged(DefaultConfig, ParseQueryParams(search)) = values
        /\ \A i \in 1..Len(replaceStates) : replaceStates[i] = search
        /\ lastOp = "mount" => Len(replaceStates) = 1

C29_Witness ==
    /\ queryPhase = "Mounted"
    /\ lastOp = "loopLengthInput"
    /\ callbacks = <<[key |-> "loopLength", value |-> DefaultLoopLength]>>
    /\ values.tickInterval = 10
    /\ values.isMuted
    /\ search["loopLength"] = Null
    /\ search["tickInterval"] = Some(<<"1", "0">>)
    /\ search["isMuted"] = Some(TrueText)
    /\ search["useSpeech"] = Null
    /\ Len(replaceStates) = 1

\* C30: a step that changes the observed position also runs the dispatcher
\* on it before any other step, and every run of the dispatcher (a step of
\* the program, not of the wall clock) compares with the rounded second of
\* the snapshot committed just before.
C30_DispatchBeforeNextRefresh ==
    [][/\ (phase' = "Running" /\ currentSeconds' # currentSeconds)
          => (/\ effectRan'
              /\ previousSecondsRef' = Some(Ceil(Val(currentSeconds'))))
       /\ (phase = "Running" /\ effectRan' /\ wallClock' = wallClock)
          => lastPrev' = Some(Ceil(Val(currentSeconds)))]_vars

C30_Witness ==
    /\ phase = "Running" /\ lastOp = "animationFrame" /\ refreshed
    /\ effectRan
    /\ docHidden
    /\ Crossed /\ Rounded = Val(lastPrev) - 1
    /\ previousSecondsRef = Some(Ceil(Val(currentSeconds)))

\* C31: in every step a speak is issued right after a cancel of the speech
\* queue and a play right after the reset of the cue's position, and the
\* speech queue never holds more than one utterance.
C31_CancelBeforeSpeak ==
    /\ Len(speechQueue) <= 1
    /\ \A i \in DOMAIN channelOps :
           /\ channelOps[i] = "speak"
                  => (i > 1 /\ channelOps[i - 1] = "cancelSpeech")
           /\ channelOps[i] = "play"
                  => (i > 1 /\ channelOps[i - 1] = "resetPosition")

C31_Witness ==
    /\ lastOp = "rerender"
    /\ Crossed
    /\ useSpeech
    /\ calls = <<Speech(Rounded)>>
    /\ channelOps = <<"cancelSpeech", "speak">>
    /\ speechQueue = <<Rounded>>
    /\ pendingPlays = 0

\* C32 (as claimed): while the scheduler runs, its visibility flag equals the
\* host's visibility, also when it was mounted on a hidden surface, so the
\* animation-frame source refreshes only while the surface is visible.
C32_VisibilityFlagMirrorsHost ==
    /\ phase = "Running" => isVisibleRef = ~docHidden
    /\ (lastOp = "animationFrame" /\ refreshed) => ~docHidden

\* C33 (as claimed): in every state of the page, the initial one included,
\* the elapsed time is not negative, the position is in [0, L) and the
\* displayed ceil(timeRemaining) is in 1..L.
C33_SnapshotInRange ==
    phase \in {"Rendered", "Running"} =>
        /\ currentTime >= startTimeRef
        /\ snapshot.elapsedSeconds >= 0
        /\ snapshot.cyclePosition >= 0
        /\ snapshot.cyclePosition < loopLength * MsPerSecond
        /\ Ceil(snapshot.timeRemaining) \in 1..loopLength

\* C34 (as claimed): a step that only changes the configuration (cycle
\* length, stride, muted, useSpeech) and leaves 'now' alone makes no
\* feedback call.
C34_ConfigurationChangeSilent ==
    lastOp \in {"setLoopLength", "setTickInterval", "setMuted", "setUseSpeech"}
        => calls = <<>>

\* C35: an observation makes at most one call, and only for the rounded
\* second it observes: a crossing that passes over a multiple of the stride
\* and lands on a second that is not one (4 -> 6 with stride 5) makes no
\* call, and no later observation announces the multiple passed over.
C35_NoCatchUp ==
    /\ Len(calls) <= 1
    /\ calls # <<>> =>
           /\ Crossed
           /\ ShouldPlay(Rounded, tickInterval)
           /\ useSpeech => calls[1] = Speech(Rounded)
    /\ (Crossed /\ tickInterval > 1 /\ Rounded % tickInterval # 0)
           => calls = <<>>

C35_Witness ==
    /\ Crossed /\ ~isMuted /\ tickInterval = 5
    /\ lastPrev = Some(4) /\ Rounded = 6
    /\ calls = <<>>

Multiples(stride, n) == [i \in 1..(n \div stride) |-> i * stride]
Range(seq) == {seq[i] : i \in DOMAIN seq}

\* C36: unmuted with a stride above 1, as long as the refreshes of the cycle
\* the clock is in have observed every whole second up to the latest one, the
\* announcements of that cycle are exactly the multiples of the stride up to
\* that second, each once and in increasing order; at the end of the cycle
\* these are the multiples in 1..L, and the refresh that wraps into the next
\* cycle starts it with no announcement.
C36_OneAnnouncementPerMultiple ==
    (/\ phase = "Running" /\ ~isMuted /\ tickInterval > 1
     /\ observedSeconds # <<>>
     /\ 1..Last(observedSeconds) \subseteq Range(observedSeconds))
    => /\ announcedSeconds = Multiples(tickInterval, Last(observedSeconds))
       /\ Last(observedSeconds) <= loopLength

C36_Witness ==
    /\ phase = "Running" /\ ~isMuted
    /\ loopLength = 4 /\ tickInterval = 2
    /\ snapshot.elapsedSeconds > loopLength * MsPerSecond
    /\ observedSeconds = <<1, 2, 3, 4>>
    /\ announcedSeconds = <<2, 4>>

\* C37 (as claimed): once the gate is torn down no interaction listener of
\* its effect is left registered, no audio context is referenced, and an
\* interaction event runs no handshake and requests no permission.
C37_TornDownGateInert ==
    gatePhase = "Unmounted" =>
        /\ gateListeners = {}
        /\ gateAudioContextRef = "null"
        /\ lastOp = "interaction" =>
               (handshakeOutcome = "none" /\ permissionResult = Null)

\* C38 (as claimed): once the dispatcher is torn down and its
\* first-interaction negotiation has completed, no audio context is
\* referenced.
C38_NoContextAfterTeardown ==
    (phase = "Stopped" /\ handshake = "done") => audioContextRef = "null"

\* C39 (as claimed): whenever the mounted gate reports
\* audioPermissionGranted, its audio context exists and is running.
C39_GrantedMeansRunning ==
    (gatePhase = "Mounted" /\ gateState.audioPermissionGranted)
        => gateAudioContextRef = "running"

====
